---- MODULE Spec2Model ----
(***************************************************************************)
(* A model of backend/models/flashcard.py: the FlashcardGenerator pipeline *)
(* (segmenter, AI requester, pattern extractor, quality gate, dedup).      *)
(*                                                                         *)
(* Python strings are TLA+ strings.  A character is a string of length 1,  *)
(* read with SubSeq; new strings are built with \o.  The alphabet is       *)
(* ASCII: str.lower, \w, \s and \b are modelled on ASCII characters.       *)
(***************************************************************************)
EXTENDS Integers, Sequences, FiniteSets, TLC

VARIABLES text, sentences, paragraphs, gemini_api_key, num_cards, pc, response,
          all_questions, final_questions, calls, raised, gate_in, gate_out,
          http_request, http_response, other,
          use_supabase, flashcard_sets, flashcard_storage, storage_counter,
          payment_storage, payment_counter, savers

vars == <<text, sentences, paragraphs, gemini_api_key, num_cards, pc, response,
          all_questions, final_questions, calls, raised, gate_in, gate_out,
          http_request, http_response, other,
          use_supabase, flashcard_sets, flashcard_storage, storage_counter,
          payment_storage, payment_counter, savers>>

pipeline_vars == <<text, sentences, paragraphs, gemini_api_key, num_cards, pc, response,
                   all_questions, final_questions, calls, raised>>

gate_vars == <<gate_in, gate_out>>

http_vars == <<http_request, http_response>>

\* the module-level state of app.py: the storage mode, the flashcard_sets
\* table of the database, the in-memory dicts with their counters, and the
\* locals of the requests that are inside _save_to_memory
app_vars == <<use_supabase, flashcard_sets, flashcard_storage, storage_counter,
              payment_storage, payment_counter, savers>>

\* an empty dict
EmptyDict == [k \in {} |-> 0]

\* no second generation request is in progress
NoOther == [name |-> "none"]

\* the flashcard_sets table: its rows by id, and the id the next insert gets
EmptyTable == [rows |-> EmptyDict, next_id |-> 1]

\* app.py as it is once imported, lines 51-54, with no request in progress
AppLoaded ==
    /\ flashcard_sets = EmptyTable
    /\ flashcard_storage = EmptyDict
    /\ storage_counter = 1
    /\ payment_storage = EmptyDict
    /\ payment_counter = 1
    /\ savers = EmptyDict

\* the same, started without SUPABASE_URL and SUPABASE_KEY
AppIdle == use_supabase = FALSE /\ AppLoaded

pipeline_vars_but_pc == <<text, sentences, paragraphs, gemini_api_key, num_cards, response,
                          all_questions, final_questions, calls, raised>>

(***************************************************************************)
(* Characters and the str methods the generator uses                       *)
(***************************************************************************)
Ch(s, i) == SubSeq(s, i, i)

CharsOf(s) == {Ch(s, i) : i \in 1..Len(s)}

UPPER == "ABCDEFGHIJKLMNOPQRSTUVWXYZ"

LOWER == "abcdefghijklmnopqrstuvwxyz"

DIGITS == "0123456789"

UpperChars == CharsOf(UPPER)

LowerChars == CharsOf(LOWER)

\* \w of the re module, on ASCII
WordChars == UpperChars \cup LowerChars \cup CharsOf(DIGITS) \cup {"_"}

\* \s of the re module and the characters str.strip / str.split treat as blank
SpaceChars == {" ", "\t", "\n", "\r", "\f"}

LowerOf == [c \in UpperChars |-> Ch(LOWER, CHOOSE i \in 1..26 : Ch(UPPER, i) = c)]

lower_ch(c) == IF c \in UpperChars THEN LowerOf[c] ELSE c

\* `LET x == v IN Op(x)`, with v evaluated once
Bind(v, Op(_)) == CHOOSE r \in {Op(x) : x \in {v}} : TRUE

MinOf(S) == CHOOSE x \in S : \A y \in S : x <= y

MaxOf(S) == CHOOSE x \in S : \A y \in S : x >= y

\* the concatenation f[lo] \o ... \o f[hi] of the strings of f
RECURSIVE Cat(_, _, _)
Cat(f, lo, hi) ==
    IF lo > hi THEN ""
    ELSE IF lo = hi THEN f[lo]
    ELSE LET mid == (lo + hi) \div 2
         IN  Cat(f, lo, mid) \o Cat(f, mid + 1, hi)

\* str.lower()
lower(s) == Cat([i \in 1..Len(s) |-> lower_ch(Ch(s, i))], 1, Len(s))

\* str.strip()
strip(s) ==
    LET solid == {i \in 1..Len(s) : Ch(s, i) \notin SpaceChars}
    IN  IF solid = {} THEN "" ELSE SubSeq(s, MinOf(solid), MaxOf(solid))

\* `w in s` for strings
In(w, s) == \E i \in 0..(Len(s) - Len(w)) : SubSeq(s, i + 1, i + Len(w)) = w

startswith(s, p) == Len(s) >= Len(p) /\ SubSeq(s, 1, Len(p)) = p

endswith(s, p) == Len(s) >= Len(p) /\ SubSeq(s, Len(s) - Len(p) + 1, Len(s)) = p

\* the positions where a word of s.split() starts, and where it ends
WordStarts(s) ==
    {i \in 1..Len(s) : Ch(s, i) \notin SpaceChars
                       /\ (i = 1 \/ Ch(s, i - 1) \in SpaceChars)}

WordEnd(s, i) ==
    MinOf({j \in i..Len(s) : j = Len(s) \/ Ch(s, j + 1) \in SpaceChars})

\* len(s.split())
split_len(s) == Cardinality(WordStarts(s))

\* the maximal runs of \w characters of s, as <<first, last>> positions
WordRuns(s) ==
    LET starts == {i \in 1..Len(s) : Ch(s, i) \in WordChars
                                     /\ (i = 1 \/ Ch(s, i - 1) \notin WordChars)}
    IN  {<<i, MinOf({j \in i..Len(s) : j = Len(s) \/ Ch(s, j + 1) \notin WordChars})>>
            : i \in starts}

(***************************************************************************)
(* Quality gate                                                            *)
(***************************************************************************)
MIN_QUESTION_LEN == 10

MAX_QUESTION_LEN == 150

MIN_ANSWER_LEN == 15

MAX_ANSWER_LEN == 500

MIN_QUESTION_WORDS == 3

MIN_ANSWER_WORDS == 4

INTERROGATIVES == {"what", "how", "why", "when", "where", "which", "who"}

QUESTION_PREFIXES == {"question:", "ask:", "generate:"}

ANSWER_PREFIXES == {"answer:", "response:"}

\* a plausible slip: the lower length bound taken strictly
IsQualityStrictLower(question, answer) ==
    /\ Len(question) > MIN_QUESTION_LEN
    /\ Len(question) <= MAX_QUESTION_LEN
    /\ Len(answer) >= MIN_ANSWER_LEN
    /\ Len(answer) <= MAX_ANSWER_LEN
    /\ endswith(question, "?")
    /\ \E word \in INTERROGATIVES : In(word, lower(question))
    /\ ~ \E p \in QUESTION_PREFIXES : startswith(lower(question), p)
    /\ ~ \E p \in ANSWER_PREFIXES : startswith(lower(answer), p)
    /\ question # answer
    /\ split_len(question) >= MIN_QUESTION_WORDS
    /\ split_len(answer) >= MIN_ANSWER_WORDS

\* a plausible slip: the terminal question mark not required
IsQualityNoMark(question, answer) ==
    /\ Len(question) >= MIN_QUESTION_LEN
    /\ Len(question) <= MAX_QUESTION_LEN
    /\ Len(answer) >= MIN_ANSWER_LEN
    /\ Len(answer) <= MAX_ANSWER_LEN
    /\ \E word \in INTERROGATIVES : In(word, lower(question))
    /\ ~ \E p \in QUESTION_PREFIXES : startswith(lower(question), p)
    /\ ~ \E p \in ANSWER_PREFIXES : startswith(lower(answer), p)
    /\ question # answer
    /\ split_len(question) >= MIN_QUESTION_WORDS
    /\ split_len(answer) >= MIN_ANSWER_WORDS

_is_quality_question(question, answer) ==
    /\ Len(question) >= MIN_QUESTION_LEN
    /\ Len(question) <= MAX_QUESTION_LEN
    /\ Len(answer) >= MIN_ANSWER_LEN
    /\ Len(answer) <= MAX_ANSWER_LEN
    /\ endswith(question, "?")
    /\ \E word \in INTERROGATIVES : In(word, lower(question))
    /\ ~ \E p \in QUESTION_PREFIXES : startswith(lower(question), p)
    /\ ~ \E p \in ANSWER_PREFIXES : startswith(lower(answer), p)
    /\ question # answer
    /\ split_len(question) >= MIN_QUESTION_WORDS
    /\ split_len(answer) >= MIN_ANSWER_WORDS

(***************************************************************************)
(* Difficulty                                                              *)
(***************************************************************************)
TECHNICAL_SUFFIXES == {"tion", "ism", "ology", "ment", "ity", "ness"}

ABSTRACT_WORDS == {"concept", "theory", "principle", "system", "process", "mechanism"}

ANALYTICAL_STEMS == {"how", "why", "analyze", "compare"}

WORD_COUNT_LIMIT == 25

LONG_WORD_LEN == 7

LONG_WORDS_LIMIT == 2

TECHNICAL_LIMIT == 1

PUNCTUATION_LIMIT == 1

EASY_MAX == 2

MEDIUM_MAX == 4

\* complexity_indicators of _assess_difficulty: the six counts
complexity_indicators(question, answer) ==
    LET txt  == question \o " " \o answer
        low  == lower(txt)
        runs == WordRuns(txt)
    IN  [word_count |-> split_len(txt),
         long_words |->
            Cardinality({i \in WordStarts(txt) : WordEnd(txt, i) - i + 1 > LONG_WORD_LEN}),
         \* re.findall(r"\b\w*(?:tion|ism|ology|ment|ity|ness)\b", IGNORECASE):
         \* one match for each maximal \w run that ends with a suffix
         technical_terms |->
            Cardinality({r \in runs : \E suf \in TECHNICAL_SUFFIXES :
                            /\ r[2] - r[1] + 1 >= Len(suf)
                            /\ SubSeq(low, r[2] - Len(suf) + 1, r[2]) = suf}),
         complex_punctuation |->
            Cardinality({i \in 1..Len(txt) : Ch(txt, i) \in {",", ";", ":"}}),
         \* re.findall(r"\b(?:concept|...)\b", IGNORECASE): the \w runs that are a word
         abstract_concepts |->
            Cardinality({r \in runs : SubSeq(low, r[1], r[2]) \in ABSTRACT_WORDS}),
         question_complexity |->
            IF \E word \in ANALYTICAL_STEMS : In(word, lower(question)) THEN 1 ELSE 0]

Label(score) ==
    IF score <= EASY_MAX THEN "easy"
    ELSE IF score <= MEDIUM_MAX THEN "medium"
    ELSE "hard"

\* a plausible slip: self.text read where the local `text` is meant
AssessDifficultySelfText(question, answer) ==
    LET ci == complexity_indicators(text, "")
        qc == complexity_indicators(question, answer).question_complexity
    IN  Label((IF ci.word_count > WORD_COUNT_LIMIT THEN 1 ELSE 0)
              + (IF ci.long_words > LONG_WORDS_LIMIT THEN 1 ELSE 0)
              + (IF ci.technical_terms > TECHNICAL_LIMIT THEN 2 ELSE 0)
              + (IF ci.complex_punctuation > PUNCTUATION_LIMIT THEN 1 ELSE 0)
              + (IF ci.abstract_concepts > 0 THEN 1 ELSE 0)
              + (IF qc > 0 THEN 1 ELSE 0))

\* a plausible slip: the technical-terms signal scored 1 like the others
AssessDifficultyUnweighted(question, answer) ==
    LET ci == complexity_indicators(question, answer)
    IN  Label((IF ci.word_count > WORD_COUNT_LIMIT THEN 1 ELSE 0)
              + (IF ci.long_words > LONG_WORDS_LIMIT THEN 1 ELSE 0)
              + (IF ci.technical_terms > TECHNICAL_LIMIT THEN 1 ELSE 0)
              + (IF ci.complex_punctuation > PUNCTUATION_LIMIT THEN 1 ELSE 0)
              + (IF ci.abstract_concepts > 0 THEN 1 ELSE 0)
              + (IF ci.question_complexity > 0 THEN 1 ELSE 0))

_assess_difficulty(question, answer) ==
    LET ci == complexity_indicators(question, answer)
    IN  Label((IF ci.word_count > WORD_COUNT_LIMIT THEN 1 ELSE 0)
              + (IF ci.long_words > LONG_WORDS_LIMIT THEN 1 ELSE 0)
              + (IF ci.technical_terms > TECHNICAL_LIMIT THEN 2 ELSE 0)
              + (IF ci.complex_punctuation > PUNCTUATION_LIMIT THEN 1 ELSE 0)
              + (IF ci.abstract_concepts > 0 THEN 1 ELSE 0)
              + (IF ci.question_complexity > 0 THEN 1 ELSE 0))

(***************************************************************************)
(* Deduplication                                                           *)
(***************************************************************************)
STOPWORDS == {"what", "is", "the", "a", "an", "how", "does", "do", "are"}

\* re.sub(r"\b(?:what|is|the|a|an|how|does|do|are)\b", "", s): a stopword is
\* removed where it is a whole maximal \w run
sub_stopwords(s) ==
    LET stop == {r \in WordRuns(s) : SubSeq(s, r[1], r[2]) \in STOPWORDS}
    IN  Cat([i \in 1..Len(s) |->
                IF \E r \in stop : r[1] <= i /\ i <= r[2] THEN "" ELSE Ch(s, i)],
            1, Len(s))

\* re.sub(r"[^\w\s]", "", s)
sub_punctuation(s) ==
    Cat([i \in 1..Len(s) |->
            IF Ch(s, i) \in WordChars \cup SpaceChars THEN Ch(s, i) ELSE ""],
        1, Len(s))

\* re.sub(r"\s+", " ", s)
sub_spaces(s) ==
    Cat([i \in 1..Len(s) |->
            IF Ch(s, i) \notin SpaceChars THEN Ch(s, i)
            ELSE IF i = 1 \/ Ch(s, i - 1) \notin SpaceChars THEN " "
            ELSE ""],
        1, Len(s))

_normalize_for_comparison(s) ==
    strip(sub_spaces(sub_punctuation(sub_stopwords(lower(s)))))

\* dict.get(key, default)
Get(d, key, default) == IF key \in DOMAIN d THEN d[key] ELSE default

\* the for loop of _ensure_question_quality from position i on
RECURSIVE QualityLoop(_, _, _, _, _)
QualityLoop(questions, target_count, i, quality_questions, seen_questions) ==
    IF i > Len(questions) THEN quality_questions
    ELSE
      LET q == questions[i]
          question == strip(Get(q, "question", ""))
          answer == strip(Get(q, "answer", ""))
          question_key == _normalize_for_comparison(question)
      IN  IF ~ _is_quality_question(question, answer)
            THEN QualityLoop(questions, target_count, i + 1,
                             quality_questions, seen_questions)
          ELSE IF question_key \in seen_questions
            THEN QualityLoop(questions, target_count, i + 1,
                             quality_questions, seen_questions)
          ELSE IF Len(quality_questions) + 1 >= target_count
            THEN Append(quality_questions, q)
          ELSE QualityLoop(questions, target_count, i + 1,
                           Append(quality_questions, q),
                           seen_questions \cup {question_key})

\* a plausible slip: the deduplication test left out
EnsureQualityNoDedup(questions, target_count) ==
    LET ok == SelectSeq(questions,
                  LAMBDA q : _is_quality_question(strip(Get(q, "question", "")),
                                                  strip(Get(q, "answer", ""))))
    IN  SubSeq(ok, 1, IF Len(ok) < target_count THEN Len(ok) ELSE target_count)

\* a plausible slip: the break at target_count left out
EnsureQualityNoBreak(questions, target_count) ==
    QualityLoop(questions, Len(questions) + 1, 1, <<>>, {})

\* a plausible slip: seen kept as a dict from key to card, so that a later
\* card with the same key replaces the earlier one
EnsureQualityKeepLast(questions, target_count) ==
    LET ok(i) == _is_quality_question(strip(Get(questions[i], "question", "")),
                                      strip(Get(questions[i], "answer", "")))
        key(i) == _normalize_for_comparison(strip(Get(questions[i], "question", "")))
        lasts == {i \in 1..Len(questions) :
                    /\ ok(i)
                    /\ \A j \in (i + 1)..Len(questions) : ok(j) => key(j) # key(i)}
        kept == SelectSeq([i \in 1..Len(questions) |-> i], LAMBDA i : i \in lasts)
        cut == IF Len(kept) < target_count THEN Len(kept) ELSE target_count
    IN  [k \in 1..cut |-> questions[kept[k]]]

_ensure_question_quality(questions, target_count) ==
    QualityLoop(questions, target_count, 1, <<>>, {})

(***************************************************************************)
(* Text segmenter                                                          *)
(***************************************************************************)
TERMINATORS == {".", "!", "?"}

ABBREVIATIONS == <<"Dr", "Mr", "Ms", "Mrs", "Prof", "Inc", "Ltd", "etc", "vs", "e.g", "i.e">>

\* stands for U+25CF, the mask character of the source; no modelled text holds it
BULLET == "^"

MIN_SENTENCE_LEN == 25

MIN_SENTENCE_WORDS == 5

\* str.replace(old, new) for a one-character old
replace(s, old, new) ==
    Cat([i \in 1..Len(s) |-> IF Ch(s, i) = old THEN new ELSE Ch(s, i)], 1, Len(s))

\* a match of r"\b(?:Dr|...|i\.e)\\." starting at i: the abbreviation at a word
\* boundary, a backslash, and one more character that is not a newline.
\* The value is the match's last position, 0 when there is none.
AbbrevMatchEnd(s, i) ==
    LET hits == {k \in 1..Len(ABBREVIATIONS) :
                    LET a == ABBREVIATIONS[k]
                        e == i + Len(a) + 1
                    IN  /\ e <= Len(s)
                        /\ SubSeq(s, i, i + Len(a) - 1) = a
                        /\ Ch(s, i + Len(a)) = "\\"
                        /\ Ch(s, e) # "\n"}
    IN  IF (i = 1 \/ Ch(s, i - 1) \notin WordChars) /\ hits # {}
        THEN i + Len(ABBREVIATIONS[MinOf(hits)]) + 1
        ELSE 0

\* the positions re.sub covers with its leftmost, non-overlapping matches
RECURSIVE AbbrevCovered(_, _)
AbbrevCovered(s, pos) ==
    LET starts == {i \in pos..Len(s) : AbbrevMatchEnd(s, i) > 0}
    IN  IF starts = {} THEN {}
        ELSE LET i == MinOf(starts)
                 e == AbbrevMatchEnd(s, i)
             IN  (i..e) \cup AbbrevCovered(s, e + 1)

\* re.sub(..., lambda m: m.group().replace(".", BULLET), text)
mask_abbreviations(s) ==
    LET covered == AbbrevCovered(s, 1)
    IN  Cat([i \in 1..Len(s) |->
                IF i \in covered /\ Ch(s, i) = "." THEN BULLET ELSE Ch(s, i)],
            1, Len(s))

\* the matches <<first, last>> of r"(?<=[.!?])\s+(?=[A-Z])": a maximal run of
\* blanks after a terminator and before a capital letter
SplitMatches(s) ==
    LET starts == {i \in 2..Len(s) : Ch(s, i - 1) \in TERMINATORS
                                     /\ Ch(s, i) \in SpaceChars}
        last(i) == MinOf({j \in i..Len(s) : j = Len(s) \/ Ch(s, j + 1) \notin SpaceChars})
    IN  {<<i, last(i)>> : i \in {k \in starts : /\ last(k) < Len(s)
                                                /\ Ch(s, last(k) + 1) \in UpperChars}}

\* re.split: the pieces between the matches, in order
re_split(s) ==
    LET ms == SplitMatches(s)
        n  == Cardinality(ms)
        \* the k-th match in text order
        nth(k) == CHOOSE m \in ms : Cardinality({x \in ms : x[1] <= m[1]}) = k
    IN  [k \in 1..(n + 1) |->
            SubSeq(s,
                   IF k = 1 THEN 1 ELSE nth(k - 1)[2] + 1,
                   IF k = n + 1 THEN Len(s) ELSE nth(k)[1] - 1)]

\* str.isspace()
isspace(s) == Len(s) > 0 /\ \A i \in 1..Len(s) : Ch(s, i) \in SpaceChars

\* a plausible slip: the length compared with >= in place of >
IsSubstantialAtLeast(sentence) ==
    /\ Len(sentence) >= MIN_SENTENCE_LEN
    /\ ~ isspace(sentence)
    /\ ~ (Len(sentence) = 2 /\ Ch(sentence, 1) \in UpperChars /\ Ch(sentence, 2) = ".")
    /\ split_len(sentence) >= MIN_SENTENCE_WORDS

\* the test of the cleaning loop on a stripped piece
IsSubstantial(sentence) ==
    /\ Len(sentence) > MIN_SENTENCE_LEN
    /\ ~ isspace(sentence)
    /\ ~ (Len(sentence) = 2 /\ Ch(sentence, 1) \in UpperChars /\ Ch(sentence, 2) = ".")
    /\ split_len(sentence) >= MIN_SENTENCE_WORDS

\* str.split(sep) for a non-empty separator: the pieces between its
\* occurrences, found from left to right
RECURSIVE split_on(_, _)
split_on(s, sep) ==
    LET at == {i \in 1..(Len(s) - Len(sep) + 1) : SubSeq(s, i, i + Len(sep) - 1) = sep}
    IN  IF at = {} THEN <<s>>
        ELSE <<SubSeq(s, 1, MinOf(at) - 1)>>
             \o split_on(SubSeq(s, MinOf(at) + Len(sep), Len(s)), sep)

PARAGRAPH_BREAK == "\n\n"

\* lines 62-67: the stripped, non-empty pieces between blank lines, or the
\* text itself when there is none
_split_into_paragraphs(t) ==
    LET pieces == split_on(t, PARAGRAPH_BREAK)
        stripped == [k \in 1..Len(pieces) |-> strip(pieces[k])]
        paragraphs_ == SelectSeq(stripped, LAMBDA p : p # "")
    IN  IF paragraphs_ = <<>> THEN <<t>> ELSE paragraphs_

_split_into_sentences(t) ==
    LET pieces  == re_split(mask_abbreviations(t))
        cleaned == [k \in 1..Len(pieces) |-> strip(replace(pieces[k], BULLET, "."))]
        kept    == SelectSeq(cleaned, IsSubstantial)
    IN  [k \in 1..Len(kept) |-> sub_spaces(kept[k])]

(***************************************************************************)
(* Pattern extractor                                                       *)
(*                                                                         *)
(* Every concept pattern has the shape                                     *)
(*      PRE ( [A-Z]? [^.!?]{lo,hi} ) MID ( [^.!?]{g2min,} ) [.!?]          *)
(* with PRE and MID alternations of literals, matched with re.IGNORECASE.  *)
(* first_letter says that group 1 starts with [A-Z]; g1min..g1max is the   *)
(* length of group 1; pres and mids list the literals in priority order.   *)
(***************************************************************************)
concept_patterns == <<
    [category |-> "definitions", pres |-> <<"">>, first_letter |-> TRUE,
     g1min |-> 4, g1max |-> 51, g2min |-> 20,
     mids |-> <<" is a ", " is an ", " is the ", " are a ", " are an ", " are the ">>,
     question_template |-> <<"What is ", "?">>,
     answer_template |-> <<"", " is ", ".">>],
    [category |-> "definitions", pres |-> <<"">>, first_letter |-> TRUE,
     g1min |-> 6, g1max |-> 51, g2min |-> 15,
     mids |-> <<" refers to ", " means ">>,
     question_template |-> <<"What does ", " refer to?">>,
     answer_template |-> <<"", " refers to ", ".">>],
    [category |-> "definitions", pres |-> <<"the term ">>, first_letter |-> FALSE,
     g1min |-> 5, g1max |-> 40, g2min |-> 15,
     mids |-> <<" describes ", " denotes ">>,
     question_template |-> <<"What does the term ", " describe?">>,
     answer_template |-> <<"The term ", " describes ", ".">>],
    [category |-> "processes", pres |-> <<"">>, first_letter |-> FALSE,
     g1min |-> 10, g1max |-> 50, g2min |-> 20,
     mids |-> <<" involves ", " consists of ", " includes ">>,
     question_template |-> <<"What does ", " involve?">>,
     answer_template |-> <<"", " involves ", ".">>],
    [category |-> "processes", pres |-> <<"the process of ">>, first_letter |-> FALSE,
     g1min |-> 10, g1max |-> 40, g2min |-> 15,
     mids |-> <<" requires ", " needs ", " uses ">>,
     question_template |-> <<"What does the process of ", " require?">>,
     answer_template |-> <<"The process of ", " requires ", ".">>],
    [category |-> "functions", pres |-> <<"">>, first_letter |-> FALSE,
     g1min |-> 10, g1max |-> 50, g2min |-> 15,
     mids |-> <<" serves to ", " functions to ", " helps to ">>,
     question_template |-> <<"What does ", " serve to do?">>,
     answer_template |-> <<"", " serves to ", ".">>],
    [category |-> "functions",
     pres |-> <<"the purpose of ", "the function of ", "the role of ">>,
     first_letter |-> FALSE,
     g1min |-> 10, g1max |-> 40, g2min |-> 15,
     mids |-> <<" is to ", " is ">>,
     question_template |-> <<"What is the purpose of ", "?">>,
     answer_template |-> <<"The purpose of ", " is ", ".">>],
    [category |-> "characteristics", pres |-> <<"">>, first_letter |-> FALSE,
     g1min |-> 10, g1max |-> 50, g2min |-> 15,
     mids |-> <<" is characterized by ", " features ", " exhibits ">>,
     question_template |-> <<"What characterizes ", "?">>,
     answer_template |-> <<"", " is characterized by ", ".">>],
    [category |-> "characteristics", pres |-> <<"">>, first_letter |-> FALSE,
     g1min |-> 10, g1max |-> 50, g2min |-> 15,
     mids |-> <<" has ", " contains ", " possesses ">>,
     question_template |-> <<"What does ", " contain?">>,
     answer_template |-> <<"", " contains ", ".">>] >>

MIN_GROUP_LEN == 3

\* the ways pattern p matches content at some start: <<start, first, last, g2, end, k>>
\* where group 1 is first..last, group 2 is g2..end-1 and end holds the
\* closing terminator; k is the index of the MID literal
MatchCandidates(p, content) ==
    LET low == lower(content)
        n   == Len(content)
        terms == {i \in 1..n : Ch(content, i) \in TERMINATORS}
        \* the MID literals found in the text, with a long enough group 2 that
        \* runs up to a terminator
        anchors == {a \in (1..n) \X (1..Len(p.mids)) :
                       LET mid == p.mids[a[2]]
                           g2  == a[1] + Len(mid)
                           after == {e \in terms : e >= g2}
                       IN  /\ g2 <= n
                           /\ SubSeq(low, a[1], g2 - 1) = mid
                           /\ after # {}
                           /\ MinOf(after) - g2 >= p.g2min}
        EndOf(a) == MinOf({e \in terms : e >= a[1] + Len(p.mids[a[2]])})
    IN  {<<a[1] - len - Len(p.pres[j]), a[1] - len, a[1] - 1,
           a[1] + Len(p.mids[a[2]]), EndOf(a), a[2]>> :
            <<a, len, j>> \in {c \in anchors \X (p.g1min..p.g1max) \X (1..Len(p.pres)) :
                LET first == c[1][1] - c[2]
                    start == first - Len(p.pres[c[3]])
                IN  /\ start >= 1
                    /\ SubSeq(low, start, first - 1) = p.pres[c[3]]
                    /\ \A i \in first..(c[1][1] - 1) : i \notin terms
                    /\ p.first_letter => Ch(low, first) \in LowerChars}}

\* the match the regex engine reports at the leftmost start from pos on:
\* group 1 as long as possible, then the first MID literal in priority order
RECURSIVE FindFrom(_, _)
FindFrom(cands, pos) ==
    LET live == {c \in cands : c[1] >= pos}
    IN  IF live = {} THEN <<>>
        ELSE LET s0    == MinOf({c[1] : c \in live})
                 at0   == {c \in live : c[1] = s0}
                 len0  == MaxOf({c[3] - c[2] : c \in at0})
                 best  == {c \in at0 : c[3] - c[2] = len0}
                 k0    == MinOf({c[6] : c \in best})
                 m     == CHOOSE c \in best : c[6] = k0
             IN  <<m>> \o FindFrom(cands, m[5] + 1)

\* re.finditer(pattern, content, re.IGNORECASE): the matches' groups, stripped
finditer(p, content) ==
    LET ms == FindFrom(MatchCandidates(p, content), 1)
    IN  [k \in 1..Len(ms) |->
            <<strip(SubSeq(content, ms[k][2], ms[k][3])),
              strip(SubSeq(content, ms[k][4], ms[k][5] - 1))>>]

(***************************************************************************)
(* The study texts the generator is constructed with                       *)
(***************************************************************************)
TEXT_EMPTY == ""

TEXT_BLANK == " \n\t "

TEXT_SHORT == "Cells divide often."

TEXT_PHOTO == "Photosynthesis is the process by which plants convert light energy into chemical energy. This process occurs in the chloroplasts and involves two main stages: light reactions and dark reactions."

TEXT_ATOM == "An atom is the smallest unit of ordinary matter. The atom is the basic building block of chemistry. Dr. Bohr has a simple model of the atom."

TEXT_MARKET == "Buyers and sellers meet in a market every day. Response: prices signal what the buyers want most."

Texts == <<TEXT_EMPTY, TEXT_BLANK, TEXT_SHORT, TEXT_PHOTO, TEXT_ATOM, TEXT_MARKET>>

\* re.finditer of every concept pattern over one text
MatchesOf(content) ==
    <<finditer(concept_patterns[1], content), finditer(concept_patterns[2], content),
      finditer(concept_patterns[3], content), finditer(concept_patterns[4], content),
      finditer(concept_patterns[5], content), finditer(concept_patterns[6], content),
      finditer(concept_patterns[7], content), finditer(concept_patterns[8], content),
      finditer(concept_patterns[9], content)>>

\* the matches of the study texts, computed once
MatchTable ==
    <<MatchesOf(Texts[1]), MatchesOf(Texts[2]), MatchesOf(Texts[3]),
      MatchesOf(Texts[4]), MatchesOf(Texts[5]), MatchesOf(Texts[6])>>

Matches(pi, content) ==
    IF \E k \in 1..Len(Texts) : Texts[k] = content
    THEN MatchTable[CHOOSE k \in 1..Len(Texts) : Texts[k] = content][pi]
    ELSE finditer(concept_patterns[pi], content)

(***************************************************************************)
(* Pattern extractor: the candidate loops                                  *)
(***************************************************************************)
ECONOMICS_WORDS == {"economy", "economic", "market", "price"}

PROCESS_WORDS == {"process", "occurs", "involves", "produces"}

_find_sentence_with_words(sents, keywords) ==
    LET hits == {k \in 1..Len(sents) : \E kw \in keywords : In(kw, lower(sents[k]))}
    IN  IF hits # {} THEN sents[MinOf(hits)]
        ELSE IF Len(sents) > 0 THEN sents[1] ELSE ""

\* the (question, answer) templates of _create_general_questions, in order
GeneralTemplates(sents, content) ==
    LET content_lower == lower(content)
    IN  (IF \E word \in ECONOMICS_WORDS : In(word, content_lower)
         THEN <<<<"What type of economic system is described?", sents[1]>>,
                <<"How do prices function in this system?",
                  _find_sentence_with_words(sents, {"price", "signal", "guide"})>>,
                <<"What guides economic decisions?",
                  _find_sentence_with_words(sents, {"decision", "guide", "determine"})>>>>
         ELSE <<>>)
        \o
        (IF \E word \in PROCESS_WORDS : In(word, content_lower)
         THEN <<<<"What process is being described?", sents[1]>>,
                <<"How does this process work?",
                  _find_sentence_with_words(sents, {"process", "involves", "occurs"})>>,
                <<"What are the results of this process?",
                  _find_sentence_with_words(sents, {"result", "produce", "create"})>>>>
         ELSE <<>>)
        \o
        <<<<"What is the main concept discussed?", sents[1]>>,
          <<"What are the key characteristics mentioned?",
            IF Len(sents) > 1 THEN sents[2] ELSE sents[1]>>,
          <<"What examples are provided?",
            IF Len(sents) > 1 THEN sents[Len(sents)] ELSE sents[1]>>>>

\* a plausible slip: the slice of the templates one short
CreateGeneralOffByOne(sents, content, num_needed) ==
    IF Len(sents) = 0 THEN <<>>
    ELSE
      LET templates == GeneralTemplates(sents, content)
          taken == SubSeq(templates, 1,
                          IF num_needed - 1 < Len(templates)
                          THEN num_needed - 1 ELSE Len(templates))
          usable == SelectSeq(taken, LAMBDA t : t[2] # "")
      IN  [k \in 1..Len(usable) |->
              [question |-> usable[k][1], answer |-> usable[k][2],
               type |-> "general_template"]]

_create_general_questions(sents, content, num_needed) ==
    IF Len(sents) = 0 THEN <<>>
    ELSE
      LET templates == GeneralTemplates(sents, content)
          taken == SubSeq(templates, 1,
                          IF num_needed < Len(templates) THEN num_needed ELSE Len(templates))
          usable == SelectSeq(taken, LAMBDA t : t[2] # "")
      IN  [k \in 1..Len(usable) |->
              [question |-> usable[k][1], answer |-> usable[k][2],
               type |-> "general_template"]]

\* the `for match in matches` loop of one pattern, from match mi on
RECURSIVE MatchLoop(_, _, _, _, _)
MatchLoop(p, matches, mi, questions, num_questions) ==
    IF mi > Len(matches) THEN questions
    ELSE IF Len(questions) >= num_questions THEN questions
    ELSE
      LET groups == matches[mi]
      IN  IF \A g \in 1..2 : Len(groups[g]) > MIN_GROUP_LEN
          THEN MatchLoop(p, matches, mi + 1,
                   Append(questions,
                       [question |-> p.question_template[1] \o groups[1]
                                        \o p.question_template[2],
                        answer |-> p.answer_template[1] \o groups[1]
                                        \o p.answer_template[2] \o groups[2]
                                        \o p.answer_template[3],
                        type |-> "pattern_" \o p.category,
                        category |-> p.category]),
                   num_questions)
          ELSE MatchLoop(p, matches, mi + 1, questions, num_questions)

\* the loops over the categories and their patterns, from pattern pi on
RECURSIVE PatternLoop(_, _, _, _)
PatternLoop(content, pi, questions, num_questions) ==
    IF pi > Len(concept_patterns) THEN questions
    ELSE PatternLoop(content, pi + 1,
                     MatchLoop(concept_patterns[pi], Matches(pi, content), 1,
                               questions, num_questions),
                     num_questions)

\* q with q[key] = value (a dict item assignment)
With(q, key, value) == (key :> value) @@ q

\* "Add metadata and limit", from question i on
RECURSIVE MetadataLoop(_, _, _)
MetadataLoop(questions, i, final_questions_) ==
    IF i > Len(questions) THEN final_questions_
    ELSE MetadataLoop(questions, i + 1,
            Append(final_questions_,
                With(With(questions[i], "id", ToString(i)),
                     "difficulty",
                     _assess_difficulty(questions[i].question, questions[i].answer))))

AddMetadata(questions, num_questions) ==
    MetadataLoop(SubSeq(questions, 1,
                        IF Len(questions) < num_questions
                        THEN Len(questions) ELSE num_questions),
                 1, <<>>)

\* a plausible slip: the general questions put in front of the pattern questions
AddGeneralFirst(sents, content, found, num_questions) ==
    IF Len(found) < num_questions
    THEN _create_general_questions(sents, content, num_questions - Len(found)) \o found
    ELSE found

\* "Add general questions if we don't have enough"
AddGeneral(sents, content, found, num_questions) ==
    IF Len(found) < num_questions
    THEN found \o _create_general_questions(sents, content, num_questions - Len(found))
    ELSE found

\* a plausible slip: questions given out by an earlier call are remembered on
\* the generator and not given out again
CreatePatternQuestionsRemembering(sents, content, num_questions) ==
    LET given == {all_questions[i].question : i \in 1..Len(all_questions)}
        limit == num_questions + Len(all_questions)
    IN  Bind(AddGeneral(sents, content, PatternLoop(content, 1, <<>>, limit), limit),
             LAMBDA questions :
                AddMetadata(SelectSeq(questions, LAMBDA q : q.question \notin given),
                            num_questions))

_create_pattern_based_questions(sents, content, num_questions) ==
    Bind(PatternLoop(content, 1, <<>>, num_questions),
         LAMBDA found :
            Bind(AddGeneral(sents, content, found, num_questions),
                 LAMBDA questions : AddMetadata(questions, num_questions)))

(***************************************************************************)
(* AI requester                                                            *)
(*                                                                         *)
(* A JSON value is a record tagged with its JSON type.  What the provider  *)
(* does is an input: a timeout, a connection error, or an HTTP response    *)
(* with a status code and a body.  The text inside a 200 body is           *)
(* [wrap, inner]: inner is the JSON document the model wrote (or text that *)
(* json.loads rejects) and wrap says how it is embedded: in a ```json      *)
(* fence, bare, or with prose around it.                                   *)
(***************************************************************************)
JString(s) == [json |-> "string", str |-> s]

JNumber(n) == [json |-> "number", num |-> n]

JNull == [json |-> "null"]

JArray(seq) == [json |-> "array", items |-> seq]

JObject(f) == [json |-> "object", fields |-> f]

JInvalid == [json |-> "invalid"]

\* the classes an exception is an instance of
ExceptionClasses(exc) ==
    CASE exc = "Timeout" -> {"Timeout", "RequestException", "Exception"}
      [] exc = "ConnectionError" -> {"ConnectionError", "RequestException", "Exception"}
      [] exc = "JSONDecodeError" -> {"JSONDecodeError", "ValueError", "Exception"}
      [] OTHER -> {exc, "Exception"}

\* the except clauses of _parse_gemini_response and of _try_gemini_generation
PARSE_EXCEPT == {"JSONDecodeError", "Exception"}

GEMINI_EXCEPT == {"Timeout", "RequestException", "Exception"}

Caught(exc, clauses) == ExceptionClasses(exc) \cap clauses # {}

HTTP_OK == 200

\* the try block of _parse_gemini_response: [value, exc]
ParseBody(response_text) ==
    LET inner == response_text.inner
        has_key == inner.json = "object" /\ "flashcards" \in DOMAIN inner.fields
        \* json_str is the fenced block, else the {..."flashcards"...} object,
        \* else the whole text, which decodes only when nothing surrounds it
        decodes == /\ inner.json # "invalid"
                   /\ \/ response_text.wrap = "fence"
                      \/ has_key
                      \/ response_text.wrap = "bare"
    IN  IF ~ decodes THEN [value |-> JArray(<<>>), exc |-> "JSONDecodeError"]
        ELSE IF inner.json \in {"number", "null"}
             THEN [value |-> JArray(<<>>), exc |-> "TypeError"]
        ELSE IF has_key THEN [value |-> inner.fields.flashcards, exc |-> "none"]
        ELSE [value |-> JArray(<<>>), exc |-> "none"]

_parse_gemini_response(response_text) ==
    LET out == ParseBody(response_text)
    IN  IF out.exc = "none" THEN [value |-> out.value, exc |-> "none"]
        ELSE IF Caught(out.exc, PARSE_EXCEPT) THEN [value |-> JArray(<<>>), exc |-> "none"]
        ELSE [value |-> JArray(<<>>), exc |-> out.exc]

\* bool(v) of a decoded JSON value
Truthy(v) ==
    CASE v.json = "null" -> FALSE
      [] v.json = "number" -> v.num # 0
      [] v.json = "string" -> v.str # ""
      [] v.json = "array" -> v.items # <<>>
      [] v.json = "object" -> DOMAIN v.fields # {}
      [] OTHER -> FALSE

\* a plausible slip: the AI cards tagged with the extractor's default tag
RECURSIVE CardLoopMistagged(_, _, _)
CardLoopMistagged(entries, i, generated_cards) ==
    IF i > Len(entries) THEN [cards |-> generated_cards, exc |-> "none"]
    ELSE
      LET card == entries[i]
          q == IF card.json = "object" THEN Get(card.fields, "question", JString("")) ELSE JNull
          a == IF card.json = "object" THEN Get(card.fields, "answer", JString("")) ELSE JNull
      IN  IF card.json # "object" \/ q.json # "string" \/ a.json # "string"
            THEN [cards |-> generated_cards, exc |-> "AttributeError"]
          ELSE
            LET question == strip(q.str)
                answer == strip(a.str)
            IN  IF _is_quality_question(question, answer)
                THEN CardLoopMistagged(entries, i + 1,
                        Append(generated_cards,
                            [id |-> ToString(i),
                             question |-> question,
                             answer |-> answer,
                             difficulty |-> _assess_difficulty(question, answer),
                             type |-> "pattern_based",
                             model |-> "gemini-1.5-flash"]))
                ELSE CardLoopMistagged(entries, i + 1, generated_cards)

\* the loop over enumerate(flashcards_data[:num_cards]) from entry i on
RECURSIVE CardLoop(_, _, _)
CardLoop(entries, i, generated_cards) ==
    IF i > Len(entries) THEN [cards |-> generated_cards, exc |-> "none"]
    ELSE
      LET card == entries[i]
          q == IF card.json = "object" THEN Get(card.fields, "question", JString("")) ELSE JNull
          a == IF card.json = "object" THEN Get(card.fields, "answer", JString("")) ELSE JNull
      IN  IF card.json # "object" \/ q.json # "string" \/ a.json # "string"
            THEN [cards |-> generated_cards, exc |-> "AttributeError"]
          ELSE
            LET question == strip(q.str)
                answer == strip(a.str)
            IN  IF _is_quality_question(question, answer)
                THEN CardLoop(entries, i + 1,
                        Append(generated_cards,
                            [id |-> ToString(i),
                             question |-> question,
                             answer |-> answer,
                             difficulty |-> _assess_difficulty(question, answer),
                             type |-> "gemini_generated",
                             model |-> "gemini-1.5-flash"]))
                ELSE CardLoop(entries, i + 1, generated_cards)

\* the try block of _try_gemini_generation: [cards, exc]
GeminiBody(content, n, resp) ==
    IF resp.kind = "timeout" THEN [cards |-> <<>>, exc |-> "Timeout"]
    ELSE IF resp.kind = "connection_error" THEN [cards |-> <<>>, exc |-> "ConnectionError"]
    ELSE IF resp.status_code # HTTP_OK THEN [cards |-> <<>>, exc |-> "none"]
    ELSE IF resp.body.json = "invalid" THEN [cards |-> <<>>, exc |-> "JSONDecodeError"]
    ELSE
      LET result == resp.body.fields
      IN  IF ~ ("candidates" \in DOMAIN result /\ result.candidates # <<>>)
            THEN [cards |-> <<>>, exc |-> "none"]
          ELSE
            LET candidate == result.candidates[1]
            IN  IF ~ ("content" \in DOMAIN candidate /\ "parts" \in DOMAIN candidate.content)
                  THEN [cards |-> <<>>, exc |-> "none"]
                ELSE IF candidate.content.parts = <<>>
                  THEN [cards |-> <<>>, exc |-> "IndexError"]
                ELSE IF "text" \notin DOMAIN candidate.content.parts[1]
                  THEN [cards |-> <<>>, exc |-> "KeyError"]
                ELSE
                  LET parsed == _parse_gemini_response(candidate.content.parts[1].text)
                      flashcards_data == parsed.value
                  IN  IF parsed.exc # "none" THEN [cards |-> <<>>, exc |-> parsed.exc]
                      ELSE IF ~ Truthy(flashcards_data) THEN [cards |-> <<>>, exc |-> "none"]
                      ELSE IF flashcards_data.json # "array"
                        THEN [cards |-> <<>>, exc |-> "TypeError"]
                      ELSE CardLoop(SubSeq(flashcards_data.items, 1,
                                           IF n < Len(flashcards_data.items)
                                           THEN n ELSE Len(flashcards_data.items)),
                                    1, <<>>)

\* a plausible slip: the last clause, `except Exception`, left out
TryGeminiNoCatchAll(key, content, n, resp) ==
    IF key = "" THEN [cards |-> <<>>, raised |-> FALSE]
    ELSE LET out == GeminiBody(content, n, resp)
         IN  IF out.exc = "none" \/ Caught(out.exc, {"Timeout", "RequestException"})
             THEN [cards |-> out.cards, raised |-> FALSE]
             ELSE [cards |-> <<>>, raised |-> TRUE]

\* [cards, raised]: the list returned, or raised = TRUE when an exception leaves
_try_gemini_generation(key, content, n, resp) ==
    IF key = "" THEN [cards |-> <<>>, raised |-> FALSE]
    ELSE LET out == GeminiBody(content, n, resp)
         IN  IF out.exc = "none" \/ Caught(out.exc, GEMINI_EXCEPT)
             THEN [cards |-> out.cards, raised |-> FALSE]
             ELSE [cards |-> <<>>, raised |-> TRUE]

(***************************************************************************)
(* Inputs: the request, the configuration and what the provider answers    *)
(***************************************************************************)
MaxCards == 3

MaxEntries == 2

ApiKeys == {"", "your_gemini_api_key_here", "AIza-key"}

PLACEHOLDER_KEY == "your_gemini_api_key_here"

ENTRY_HOW ==
    JObject([question |-> JString("How do plants make chemical energy?"),
             answer |-> JString("Plants convert light energy into chemical energy.")])

ENTRY_HOW_AGAIN ==
    JObject([question |-> JString("How do the plants make chemical energy?"),
             answer |-> JString("They use light, water and carbon dioxide.")])

ENTRY_PHOTO ==
    JObject([question |-> JString("  What is photosynthesis?  "),
             answer |-> JString("It is how plants turn light into chemical energy.")])

ENTRY_NO_MARK ==
    JObject([question |-> JString("Describe what the light reactions do."),
             answer |-> JString("They capture light energy in the chloroplasts.")])

ENTRY_NO_ANSWER == JObject([question |-> JString("Why do plants need light?")])

ENTRY_STRING == JString("What is a chloroplast?")

Entries == {ENTRY_HOW, ENTRY_HOW_AGAIN, ENTRY_PHOTO, ENTRY_NO_MARK, ENTRY_STRING}

RECURSIVE SeqsUpTo(_, _)
SeqsUpTo(S, n) ==
    IF n = 0 THEN {<<>>}
    ELSE LET shorter == SeqsUpTo(S, n - 1)
         IN  shorter \cup {Append(q, x) : q \in {r \in shorter : Len(r) = n - 1}, x \in S}

\* what the model may have written: the texts tried in every way of writing,
\* undecodable text, JSON of another shape, an empty list and a list of one card
OddInners ==
    {JInvalid, JNumber(7), JArray(<<ENTRY_HOW>>), JObject([error |-> JString("blocked")]),
     JObject([flashcards |-> JNull]), JObject([flashcards |-> JNumber(3)]),
     JObject([flashcards |-> JArray(<<>>)]),
     JObject([flashcards |-> JArray(<<ENTRY_HOW>>)])}

\* a flashcards object with a list of entries
ListInners ==
    {JObject([flashcards |-> JArray(es)]) : es \in SeqsUpTo(Entries, MaxEntries)}
    \cup {JObject([flashcards |-> JArray(<<ENTRY_NO_ANSWER, ENTRY_HOW>>)])}

Inners == OddInners \cup ListInners

\* the lists come in a fenced block; the other ways of writing are tried on OddInners
ResponseTexts ==
    [wrap : {"fence"}, inner : Inners] \cup [wrap : {"bare", "prose"}, inner : OddInners]

\* the bodies of a 200 response, as response.json() decodes them
Bodies ==
    {JInvalid,
     JObject([error |-> JString("quota")]),
     JObject([candidates |-> <<>>]),
     JObject([candidates |-> <<[finishReason |-> "SAFETY"]>>]),
     JObject([candidates |-> <<[content |-> [role |-> "model"]]>>]),
     JObject([candidates |-> <<[content |-> [parts |-> <<>>]]>>]),
     JObject([candidates |-> <<[content |-> [parts |-> <<[inlineData |-> "x"]>>]]>>])}
    \cup {JObject([candidates |-> <<[content |-> [parts |-> <<[text |-> t]>>]]>>])
            : t \in ResponseTexts}

Responses ==
    {[kind |-> "timeout"], [kind |-> "connection_error"]}
    \cup {[kind |-> "http", status_code |-> sc, body |-> JInvalid] : sc \in {429, 503}}
    \cup {[kind |-> "http", status_code |-> HTTP_OK, body |-> b] : b \in Bodies}

NoResponse == [kind |-> "none"]

\* no HTTP request is being served: the generator is called directly
NoRequest == [json |-> "none"]

NoReply == [status |-> 0]

(***************************************************************************)
(* generate_flashcards, one action for each stage of the call              *)
(***************************************************************************)
GateIdle == [question |-> "", answer |-> ""]

NoOutput == [op |-> "none"]

Init ==
    /\ text \in {Texts[k] : k \in 1..Len(Texts)}
    /\ sentences = _split_into_sentences(text)
    /\ paragraphs = _split_into_paragraphs(text)
    /\ gemini_api_key \in ApiKeys
    /\ num_cards \in 1..MaxCards
    /\ pc = "start"
    /\ response = NoResponse
    /\ all_questions = <<>>
    /\ final_questions = <<>>
    /\ calls = <<>>
    /\ raised = FALSE
    /\ gate_in = GateIdle
    /\ gate_out = NoOutput
    /\ http_request = NoRequest
    /\ http_response = NoReply
    /\ other = NoOther
    /\ AppIdle

\* a plausible slip: the text compared without strip()
IsEmptyNoStrip(t) == t = ""

\* `if not self.text.strip()`
IsEmptyText(t) == strip(t) = ""

\* the test that guards the Gemini attempt
KeyConfigured(key) == key # "" /\ key # PLACEHOLDER_KEY

\* lines 477-498: the empty-text guard and the choice of the first stage
Start ==
    /\ pc = "start"
    /\ IF IsEmptyText(text)
       THEN pc' = "done"
       ELSE IF KeyConfigured(gemini_api_key)
            THEN pc' = "gemini"
            ELSE pc' = "pattern"
    /\ UNCHANGED <<text, sentences, paragraphs, gemini_api_key, num_cards, response,
                   all_questions, final_questions, calls, raised>>
    /\ UNCHANGED gate_vars
    /\ UNCHANGED <<other, app_vars>>
    /\ UNCHANGED http_vars

\* lines 487-496: the Gemini attempt; the provider's answer is the input
CallGemini ==
    /\ pc = "gemini"
    /\ \E resp \in Responses :
         LET out == _try_gemini_generation(gemini_api_key, text, num_cards, resp)
         IN  /\ response' = resp
             /\ all_questions' = all_questions \o out.cards
             /\ raised' = out.raised
             /\ pc' = IF out.raised THEN "done" ELSE "pattern"
    /\ calls' = calls \o <<[fn |-> "_try_gemini_generation", num |-> num_cards],
                           [fn |-> "requests.post", num |-> num_cards]>>
    /\ UNCHANGED <<text, sentences, paragraphs, gemini_api_key, num_cards, final_questions>>
    /\ UNCHANGED gate_vars
    /\ UNCHANGED <<other, app_vars>>
    /\ UNCHANGED http_vars

\* "Adjust IDs to avoid conflicts"
AdjustIds(pattern_questions, offset) ==
    [i \in 1..Len(pattern_questions) |->
        With(pattern_questions[i], "id", ToString(offset + i))]

\* a plausible slip: the extractor asked for num_cards whatever the AI gave
CallPatternFull ==
    /\ pc = "pattern"
    /\ all_questions' = all_questions \o
           AdjustIds(_create_pattern_based_questions(sentences, text, num_cards),
                     Len(all_questions))
    /\ calls' = Append(calls, [fn |-> "_create_pattern_based_questions",
                               num |-> num_cards])
    /\ pc' = "quality"
    /\ UNCHANGED <<text, sentences, paragraphs, gemini_api_key, num_cards, response,
                   final_questions, raised>>
    /\ UNCHANGED gate_vars
    /\ UNCHANGED <<other, app_vars>>
    /\ UNCHANGED http_vars

\* a plausible slip: the pattern cards put in front of the pool
CallPatternFirst ==
    /\ pc = "pattern"
    /\ LET remaining == num_cards - Len(all_questions)
       IN  IF remaining > 0
           THEN /\ all_questions' =
                      AdjustIds(_create_pattern_based_questions(sentences, text, remaining),
                                Len(all_questions))
                      \o all_questions
                /\ calls' = Append(calls, [fn |-> "_create_pattern_based_questions",
                                           num |-> remaining])
           ELSE UNCHANGED <<all_questions, calls>>
    /\ pc' = "quality"
    /\ UNCHANGED <<text, sentences, paragraphs, gemini_api_key, num_cards, response,
                   final_questions, raised>>
    /\ UNCHANGED gate_vars
    /\ UNCHANGED <<other, app_vars>>
    /\ UNCHANGED http_vars

\* a plausible slip: all_questions kept in a list shared between requests
\* (a class attribute), so that the other request's candidates are in the pool
CallPatternSharedPool ==
    /\ pc = "pattern"
    /\ LET theirs == IF other = NoOther THEN <<>> ELSE other.all_questions
           shared == theirs \o all_questions
           remaining == num_cards - Len(shared)
       IN  IF remaining > 0
           THEN /\ all_questions' = shared \o
                      AdjustIds(_create_pattern_based_questions(sentences, text, remaining),
                                Len(shared))
                /\ calls' = Append(calls, [fn |-> "_create_pattern_based_questions",
                                           num |-> remaining])
           ELSE /\ all_questions' = shared
                /\ UNCHANGED calls
    /\ pc' = "quality"
    /\ UNCHANGED <<text, sentences, paragraphs, gemini_api_key, num_cards, response,
                   final_questions, raised>>
    /\ UNCHANGED gate_vars
    /\ UNCHANGED http_vars
    /\ UNCHANGED <<other, app_vars>>

\* lines 500-512: the pattern extractor fills what is missing
CallPattern ==
    /\ pc = "pattern"
    /\ LET remaining == num_cards - Len(all_questions)
       IN  IF remaining > 0
           THEN /\ all_questions' = all_questions \o
                      AdjustIds(_create_pattern_based_questions(sentences, text, remaining),
                                Len(all_questions))
                /\ calls' = Append(calls, [fn |-> "_create_pattern_based_questions",
                                           num |-> remaining])
           ELSE UNCHANGED <<all_questions, calls>>
    /\ pc' = "quality"
    /\ UNCHANGED <<text, sentences, paragraphs, gemini_api_key, num_cards, response,
                   final_questions, raised>>
    /\ UNCHANGED gate_vars
    /\ UNCHANGED <<other, app_vars>>
    /\ UNCHANGED http_vars

\* lines 514-522: final quality control, and the return
QualityControl ==
    /\ pc = "quality"
    /\ final_questions' = _ensure_question_quality(all_questions, num_cards)
    /\ pc' = "done"
    /\ UNCHANGED <<text, sentences, paragraphs, gemini_api_key, num_cards, response,
                   all_questions, calls, raised>>
    /\ UNCHANGED gate_vars
    /\ UNCHANGED <<other, app_vars>>
    /\ UNCHANGED http_vars

Next == Start \/ CallGemini \/ CallPattern \/ QualityControl

Spec == Init /\ [][Next]_vars

(***************************************************************************)
(* The quality gate on its own: _is_quality_question and                   *)
(* _assess_difficulty applied to one (question, answer) pair               *)
(***************************************************************************)
RECURSIVE Rep(_, _)
Rep(s, k) ==
    IF k = 0 THEN ""
    ELSE IF k = 1 THEN s
    ELSE Rep(s, k \div 2) \o Rep(s, k - (k \div 2))

Q_ATOM == "What is an atom exactly?"

Q_MIN == "Who is it?"

Q_SHORT == "Who am I?"

Q_MAX == "What is " \o Rep("a", MAX_QUESTION_LEN - 9) \o "?"

Q_LONG == "What is " \o Rep("a", MAX_QUESTION_LEN - 8) \o "?"

Q_NO_MARK == "What is an atom exactly"

Q_NO_WORD == "Is an atom very small?"

Q_TWO_WORDS == "Whatever happens?"

Q_PREFIX == "Question: what is an atom?"

Q_UPPER == "WHAT IS AN ATOM?"

Q_EVOLUTION == "How does evolution shape a population?"

Q_SYSTEM == "Why does the immune system need regulation, selection and recognition of infection?"

GateQuestions ==
    {Q_ATOM, Q_MIN, Q_SHORT, Q_MAX, Q_LONG, Q_NO_MARK, Q_NO_WORD, Q_TWO_WORDS,
     Q_PREFIX, Q_UPPER, Q_EVOLUTION, Q_SYSTEM}

A_ATOM == "An atom is the smallest unit of matter."

A_MIN == "An atom is tiny"

A_SHORT == "An atom is big"

A_MAX == "An atom is " \o Rep("a", MAX_ANSWER_LEN - 11)

A_LONG == "An atom is " \o Rep("a", MAX_ANSWER_LEN - 10)

A_THREE_WORDS == "Smallest ordinary matter."

A_PREFIX == "Answer: an atom is the smallest unit."

A_PROCESS ==
    "Selection, mutation and drift: the process changes the inherited characteristics of organisms."

A_WORDY ==
    "It is a thing that we can see each day in the sky when the sun is up and the air is dry and all of us are out and about and at play."

GateAnswers ==
    {Q_ATOM, A_ATOM, A_MIN, A_SHORT, A_MAX, A_LONG, A_THREE_WORDS, A_PREFIX,
     A_PROCESS, A_WORDY}

GateInit ==
    /\ text = TEXT_EMPTY
    /\ sentences = <<>>
    /\ paragraphs = _split_into_paragraphs(TEXT_EMPTY)
    /\ gemini_api_key = ""
    /\ num_cards = 1
    /\ pc = "gate"
    /\ response = NoResponse
    /\ all_questions = <<>>
    /\ final_questions = <<>>
    /\ calls = <<>>
    /\ raised = FALSE
    /\ gate_in \in [question : GateQuestions, answer : GateAnswers]
    /\ gate_out = NoOutput
    /\ http_request = NoRequest
    /\ http_response = NoReply
    /\ other = NoOther
    /\ AppIdle

GateAccept ==
    /\ pc = "gate"
    /\ gate_out = NoOutput
    /\ gate_out' = [op |-> "_is_quality_question",
                    accepted |-> _is_quality_question(gate_in.question, gate_in.answer)]
    /\ UNCHANGED <<pipeline_vars, gate_in>>
    /\ UNCHANGED <<other, app_vars>>
    /\ UNCHANGED http_vars

GateDifficulty ==
    /\ pc = "gate"
    /\ gate_out = NoOutput
    /\ gate_out' = [op |-> "_assess_difficulty",
                    difficulty |-> _assess_difficulty(gate_in.question, gate_in.answer)]
    /\ UNCHANGED <<pipeline_vars, gate_in>>
    /\ UNCHANGED <<other, app_vars>>
    /\ UNCHANGED http_vars

GateNext == GateAccept \/ GateDifficulty

SpecGate == GateInit /\ [][GateNext]_vars

(***************************************************************************)
(* _ensure_question_quality on its own: any candidate pool, any target     *)
(***************************************************************************)
MaxPool == 3

PoolCard(id, question, answer, type) ==
    [id |-> id, question |-> question, answer |-> answer,
     difficulty |-> _assess_difficulty(question, answer), type |-> type]

CARD_ATOM ==
    PoolCard("1", "What is an atom?", "An atom is the smallest unit of matter.",
             "gemini_generated")

CARD_THE_ATOM ==
    PoolCard("2", "  What is the Atom?  ", "The atom is the basic building block.",
             "pattern_definitions")

CARD_PLANTS ==
    PoolCard("3", "How do plants make energy?", "Plants convert light into energy.",
             "gemini_generated")

CARD_NO_MARK ==
    PoolCard("4", "Describe what the cell does.", "The cell divides and grows daily.",
             "pattern_processes")

CARD_CELLS ==
    PoolCard("5", "Why do cells divide?", "Cells divide so that tissue can grow.",
             "general_template")

PoolCards == {CARD_ATOM, CARD_THE_ATOM, CARD_PLANTS, CARD_NO_MARK, CARD_CELLS}

DedupInit ==
    /\ text = TEXT_SHORT
    /\ sentences = _split_into_sentences(TEXT_SHORT)
    /\ paragraphs = _split_into_paragraphs(TEXT_SHORT)
    /\ gemini_api_key = ""
    /\ num_cards \in 1..MaxCards
    /\ pc = "quality"
    /\ response = NoResponse
    /\ all_questions \in SeqsUpTo(PoolCards, MaxPool)
    /\ final_questions = <<>>
    /\ calls = <<>>
    /\ raised = FALSE
    /\ gate_in = GateIdle
    /\ gate_out = NoOutput
    /\ http_request = NoRequest
    /\ http_response = NoReply
    /\ other = NoOther
    /\ AppIdle

SpecDedup == DedupInit /\ [][QualityControl]_vars

(***************************************************************************)
(* Properties                                                              *)
(***************************************************************************)
Done == pc = "done"

Positions(seq) == 1..Len(seq)

\* the normalized comparison key of a card's question
KeyOf(q) == _normalize_for_comparison(q.question)

\* the pool entries that pass the accept predicate
Accepted(pool) ==
    {i \in Positions(pool) : _is_quality_question(strip(pool[i].question),
                                                  strip(pool[i].answer))}

\* C1: when generate_flashcards has returned, no two of the returned
\* flashcards have questions with the same normalized comparison key,
\* whatever mix of AI and pattern candidates entered the pool.
C1_NoTwoCardsShareAKey ==
    Done => \A i, j \in Positions(final_questions) :
                i # j => KeyOf(final_questions[i]) # KeyOf(final_questions[j])

\* an AI card and a pattern card of the pool share a key, and two cards are returned
C1_Witness ==
    /\ Done
    /\ Len(final_questions) >= 2
    /\ \E i, j \in Accepted(all_questions) :
          /\ i < j
          /\ all_questions[i].type = "gemini_generated"
          /\ all_questions[j].type # "gemini_generated"
          /\ KeyOf(all_questions[i]) = KeyOf(all_questions[j])

\* the number of distinct normalized keys among the accepted pool entries
DistinctAccepted(pool) == Cardinality({KeyOf(pool[i]) : i \in Accepted(pool)})

\* C2: given a pool and a target n >= 1, _ensure_question_quality returns
\* exactly min(n, D) flashcards, D the number of distinct normalized keys among
\* the pool entries that pass the accept predicate, and every returned card is
\* a card of the pool.
C2_ReturnsMinOfTargetAndDistinct ==
    Done =>
      /\ Len(final_questions) = MinOf({num_cards, DistinctAccepted(all_questions)})
      /\ \A i \in Positions(final_questions) :
            \E j \in Positions(all_questions) : final_questions[i] = all_questions[j]

\* more distinct accepted keys than the target, with a duplicate and a rejected
\* candidate in the pool: the result is cut at the target
C2_Witness ==
    /\ Done
    /\ DistinctAccepted(all_questions) > num_cards
    /\ Len(all_questions) > DistinctAccepted(all_questions)
    /\ Len(final_questions) = num_cards

\* the seven conditions of the acceptance predicate, as the specification lists them
SevenConditions(question, answer) ==
    /\ Len(question) >= 10 /\ Len(question) <= 150
    /\ Len(answer) >= 15 /\ Len(answer) <= 500
    /\ endswith(question, "?")
    /\ \E word \in {"what", "how", "why", "when", "where", "which", "who"} :
          In(word, lower(question))
    /\ question # answer
    /\ split_len(question) >= 3
    /\ split_len(answer) >= 4

\* the question/answer objects the provider offered, <<>> when its response
\* carries no decodable flashcards list
Offered ==
    IF /\ response.kind = "http"
       /\ response.status_code = 200
       /\ response.body.json = "object"
       /\ "candidates" \in DOMAIN response.body.fields
       /\ response.body.fields.candidates # <<>>
       /\ "content" \in DOMAIN response.body.fields.candidates[1]
       /\ "parts" \in DOMAIN response.body.fields.candidates[1].content
       /\ response.body.fields.candidates[1].content.parts # <<>>
       /\ "text" \in DOMAIN response.body.fields.candidates[1].content.parts[1]
    THEN LET inner == response.body.fields.candidates[1].content.parts[1].text.inner
         IN  IF /\ inner.json = "object"
                /\ "flashcards" \in DOMAIN inner.fields
                /\ inner.fields.flashcards.json = "array"
             THEN inner.fields.flashcards.items
             ELSE <<>>
    ELSE <<>>

\* C3: every flashcard generate_flashcards returns satisfies the acceptance
\* predicate on its question and answer: the seven listed conditions hold.
C3_ReturnedCardsAreAccepted ==
    Done => \A i \in Positions(final_questions) :
                SevenConditions(final_questions[i].question, final_questions[i].answer)

\* the provider offered a question without a question mark, and cards are returned
C3_Witness ==
    /\ Done
    /\ final_questions # <<>>
    /\ \E i \in Positions(Offered) : Offered[i] = ENTRY_NO_MARK

\* C4: the ids of the returned flashcards are "1", "2", ..., "k" in output
\* order, with no gap and no duplicate.
C4_IdsAreSequential ==
    Done => \A i \in Positions(final_questions) : final_questions[i].id = ToString(i)

\* two returned flashcards carry the same id
C4_DuplicateIds ==
    /\ Done
    /\ \E i, j \in Positions(final_questions) :
          i # j /\ final_questions[i].id = final_questions[j].id

\* every character of t is whitespace
WhitespaceOnly(t) == \A i \in 1..Len(t) : Ch(t, i) \in SpaceChars

\* C5: for empty or whitespace-only text generate_flashcards returns the empty
\* sequence, raises nothing, and calls neither the AI provider nor the pattern
\* extractor.
C5_EmptyTextReturnsNothing ==
    WhitespaceOnly(text) =>
        /\ pc \in {"start", "done"}
        /\ final_questions = <<>>
        /\ all_questions = <<>>
        /\ calls = <<>>
        /\ ~ raised

\* whitespace-only text, a configured key and several cards asked for: returned
C5_Witness ==
    /\ Done
    /\ text = TEXT_BLANK
    /\ KeyConfigured(gemini_api_key)
    /\ num_cards > 1

\* the cards of the pool that the AI requester returned
AICards == SelectSeq(all_questions, LAMBDA q : q.type = "gemini_generated")

\* the AI requester has returned
Requested == response # NoResponse

\* the first num_cards entries of the provider's list, the ones the requester reads
Considered == SubSeq(Offered, 1, MinOf({num_cards, Len(Offered)}))

\* the provider was not reached, refused, or its body does not decode, or the
\* decoded list holds, among the entries read, one that is not an object
ProviderFailed ==
    \/ response.kind \in {"timeout", "connection_error"}
    \/ response.kind = "http" /\ response.status_code # 200
    \/ response.kind = "http" /\ response.body.json = "invalid"
    \/ \E i \in Positions(Considered) : Considered[i].json # "object"

\* C6: the AI requester never raises, and on any network error, timeout,
\* non-success status or malformed body, a decoded list with an entry that is
\* not a question/answer object included, it returns an empty candidate list.
C6_FailureGivesNoCandidates ==
    (Requested /\ ProviderFailed) => (~ raised /\ AICards = <<>>)

\* the list holds a valid card and then a bare string, and a card came back
C6_PartialResult ==
    /\ pc = "pattern"
    /\ num_cards = 2
    /\ Offered = <<ENTRY_HOW, ENTRY_STRING>>
    /\ Len(all_questions) = 1

\* the calls made to the pattern extractor
PatternCalls ==
    SelectSeq(calls, LAMBDA c : c.fn = "_create_pattern_based_questions")

\* entry e is a question/answer object
IsPair(e) ==
    /\ e.json = "object"
    /\ "question" \in DOMAIN e.fields /\ e.fields.question.json = "string"
    /\ "answer" \in DOMAIN e.fields /\ e.fields.answer.json = "string"

\* entry e, a question/answer object, passes the accept predicate
Passes(e) == _is_quality_question(strip(e.fields.question.str), strip(e.fields.answer.str))

C7_WitnessNoCall ==
    /\ Done
    /\ Len(AICards) = num_cards
    /\ PatternCalls = <<>>

\* C8: within one request the AI requester is attempted before the pattern
\* extractor, and in the returned sequence every AI-sourced flashcard precedes
\* every pattern- or template-sourced flashcard.
C8_AIBeforePattern ==
    /\ \A i, j \in Positions(calls) :
          (/\ calls[i].fn = "_create_pattern_based_questions"
           /\ calls[j].fn \in {"_try_gemini_generation", "requests.post"}) => j < i
    /\ (/\ KeyConfigured(gemini_api_key)
        /\ ~ WhitespaceOnly(text)
        /\ pc \in {"pattern", "quality", "done"}) =>
            (calls # <<>> /\ calls[1].fn = "_try_gemini_generation")
    /\ Done => \A i, j \in Positions(final_questions) :
                  (i < j /\ final_questions[j].type = "gemini_generated") =>
                      final_questions[i].type = "gemini_generated"

\* an AI card and a pattern card are both returned
C8_Witness ==
    /\ Done
    /\ \E i, j \in Positions(final_questions) :
          /\ final_questions[i].type = "gemini_generated"
          /\ final_questions[j].type # "gemini_generated"
    /\ Len(PatternCalls) = 1

\* _is_quality_question has been applied to the pair gate_in
Gated == gate_out.op = "_is_quality_question"

\* the question opens with an instruction label, or the answer with an answer label
Labelled(question, answer) ==
    \/ \E p \in {"question:", "ask:", "generate:"} : startswith(lower(question), p)
    \/ \E p \in {"answer:", "response:"} : startswith(lower(answer), p)

\* C9 as stated: accept(question, answer) is true exactly when the seven
\* listed conditions hold.
C9_AcceptIsTheSevenConditions ==
    Gated => (gate_out.accepted <=> SevenConditions(gate_in.question, gate_in.answer))

\* C9 amended: accept(question, answer) is true exactly when the seven listed
\* conditions hold and, case-insensitively, the question does not start with
\* "question:", "ask:" or "generate:" and the answer does not start with
\* "answer:" or "response:".
C9_AcceptIsSevenConditionsAndNoLabel ==
    Gated => (gate_out.accepted <=>
                (/\ SevenConditions(gate_in.question, gate_in.answer)
                 /\ ~ Labelled(gate_in.question, gate_in.answer)))

\* a pair that meets all seven conditions is rejected for its label
C9_Witness ==
    /\ Gated
    /\ gate_in = [question |-> Q_PREFIX, answer |-> A_ATOM]
    /\ SevenConditions(gate_in.question, gate_in.answer)
    /\ ~ gate_out.accepted

\* a pair at the lower length limits of question and answer is accepted
C9_WitnessAtTheLimits ==
    /\ Gated
    /\ gate_in = [question |-> Q_MIN, answer |-> A_MIN]
    /\ gate_out.accepted

\* _assess_difficulty has been applied to the pair gate_in
Assessed == gate_out.op = "_assess_difficulty"

\* the six binary complexity signals of a pair, by name
Signals(question, answer) ==
    LET ci == complexity_indicators(question, answer)
    IN  [word_count |-> ci.word_count > 25,
         long_words |-> ci.long_words > 2,
         technical_terms |-> ci.technical_terms > 1,
         complex_punctuation |-> ci.complex_punctuation > 1,
         abstract_concepts |-> ci.abstract_concepts > 0,
         question_complexity |-> ci.question_complexity > 0]

\* how many of the six signals are true
SignalCount(question, answer) ==
    LET sig == Signals(question, answer)
    IN  Cardinality({name \in DOMAIN sig : sig[name]})

\* the signals summed with the technical-terms signal counting twice
WeightedScore(question, answer) ==
    SignalCount(question, answer)
    + (IF Signals(question, answer).technical_terms THEN 1 ELSE 0)

Thresholded(total) ==
    IF total <= 2 THEN "easy" ELSE IF total <= 4 THEN "medium" ELSE "hard"

\* C10 as stated: the difficulty is the thresholded count of the six signals,
\* each true signal counting once: easy up to 2, medium for 3 or 4, hard for 5
\* or 6.
C10_DifficultyIsTheSignalCount ==
    Assessed =>
        gate_out.difficulty = Thresholded(SignalCount(gate_in.question, gate_in.answer))

\* C10 amended: the difficulty is the thresholded weighted sum of the six
\* signals, the technical-terms signal counting 2 and each other signal 1:
\* easy up to 2, medium for 3 or 4, hard from 5 to 7.
C10_DifficultyIsTheWeightedScore ==
    Assessed =>
        gate_out.difficulty = Thresholded(WeightedScore(gate_in.question, gate_in.answer))

\* two signals are true, the technical-terms one among them, and the label is medium
C10_Witness ==
    /\ Assessed
    /\ SignalCount(gate_in.question, gate_in.answer) = 2
    /\ Signals(gate_in.question, gate_in.answer).technical_terms
    /\ gate_out.difficulty = "medium"

(***************************************************************************)
(* _assess_difficulty called again and again, on generators built from     *)
(* different texts                                                         *)
(***************************************************************************)
MaxCalls == 2

PurePairs ==
    {[question |-> Q_EVOLUTION, answer |-> A_MIN],
     [question |-> Q_ATOM, answer |-> A_PROCESS]}

PureInit ==
    /\ text \in {Texts[k] : k \in 1..Len(Texts)}
    /\ sentences = _split_into_sentences(text)
    /\ paragraphs = _split_into_paragraphs(text)
    /\ gemini_api_key = ""
    /\ num_cards = 1
    /\ pc = "idle"
    /\ response = NoResponse
    /\ all_questions = <<>>
    /\ final_questions = <<>>
    /\ calls = <<>>
    /\ raised = FALSE
    /\ gate_in = GateIdle
    /\ gate_out = NoOutput
    /\ http_request = NoRequest
    /\ http_response = NoReply
    /\ other = NoOther
    /\ AppIdle

\* FlashcardGenerator(text): another generator takes the place of the first
Construct ==
    /\ pc = "idle"
    /\ text' \in {Texts[k] : k \in 1..Len(Texts)} \ {text}
    /\ sentences' = _split_into_sentences(text')
    /\ paragraphs' = _split_into_paragraphs(text')
    /\ UNCHANGED <<gemini_api_key, num_cards, pc, response, all_questions,
                   final_questions, calls, raised>>
    /\ UNCHANGED gate_vars
    /\ UNCHANGED <<other, app_vars>>
    /\ UNCHANGED http_vars

\* generator._assess_difficulty(question, answer), the call and its result logged
AssessDifficulty ==
    /\ pc = "idle"
    /\ Len(calls) < MaxCalls
    /\ \E pair \in PurePairs :
          calls' = Append(calls,
                      [fn |-> "_assess_difficulty",
                       generator |-> text,
                       question |-> pair.question,
                       answer |-> pair.answer,
                       result |-> _assess_difficulty(pair.question, pair.answer)])
    /\ UNCHANGED <<text, sentences, paragraphs, gemini_api_key, num_cards, pc, response,
                   all_questions, final_questions, raised>>
    /\ UNCHANGED gate_vars
    /\ UNCHANGED <<other, app_vars>>
    /\ UNCHANGED http_vars

PureNext == Construct \/ AssessDifficulty

SpecPure == PureInit /\ [][PureNext]_vars

MaxNeeded == 7

ExtractInit ==
    /\ text \in {Texts[k] : k \in 1..Len(Texts)}
    /\ sentences = _split_into_sentences(text)
    /\ paragraphs = _split_into_paragraphs(text)
    /\ gemini_api_key = ""
    /\ num_cards \in 1..MaxNeeded
    /\ pc = "extract"
    /\ response = NoResponse
    /\ all_questions = <<>>
    /\ final_questions = <<>>
    /\ calls = <<>>
    /\ raised = FALSE
    /\ gate_in = GateIdle
    /\ gate_out = NoOutput
    /\ http_request = NoRequest
    /\ http_response = NoReply
    /\ other = NoOther
    /\ AppIdle

\* generator._create_pattern_based_questions(text, num_cards), the first call
Extract ==
    /\ pc = "extract"
    /\ all_questions' = _create_pattern_based_questions(sentences, text, num_cards)
    /\ calls' = Append(calls, [fn |-> "_create_pattern_based_questions",
                               num |-> num_cards])
    /\ pc' = "extracted"
    /\ UNCHANGED <<text, sentences, paragraphs, gemini_api_key, num_cards, response,
                   final_questions, raised>>
    /\ UNCHANGED gate_vars
    /\ UNCHANGED <<other, app_vars>>
    /\ UNCHANGED http_vars

\* the same call made again
ExtractAgain ==
    /\ pc = "extracted"
    /\ final_questions' = _create_pattern_based_questions(sentences, text, num_cards)
    /\ calls' = Append(calls, [fn |-> "_create_pattern_based_questions",
                               num |-> num_cards])
    /\ pc' = "extracted_twice"
    /\ UNCHANGED <<text, sentences, paragraphs, gemini_api_key, num_cards, response,
                   all_questions, raised>>
    /\ UNCHANGED gate_vars
    /\ UNCHANGED <<other, app_vars>>
    /\ UNCHANGED http_vars

ExtractNext == Extract \/ ExtractAgain

SpecExtract == ExtractInit /\ [][ExtractNext]_vars

\* the first call of the extractor has returned
Extracted == pc \in {"extracted", "extracted_twice"}

\* no structured rule matches the text
NoRuleMatches == \A pi \in 1..Len(concept_patterns) : Matches(pi, text) = <<>>

\* the cards of a list that the general templates gave
GeneralCards(cards) == SelectSeq(cards, LAMBDA q : q.type = "general_template")

\* the cards of a list that the structured rules gave
RuleCards(cards) == SelectSeq(cards, LAMBDA q : q.type # "general_template")

\* C12: for non-empty text whose sentence list is empty and that matches no
\* structured rule, the extractor's general-template fallback still gives at
\* least one and at most n candidates.
C12_FallbackWithoutSentences ==
    (/\ Extracted
     /\ ~ WhitespaceOnly(text)
     /\ sentences = <<>>
     /\ NoRuleMatches) =>
        (Len(all_questions) >= 1 /\ Len(all_questions) <= num_cards)

\* text of one short sentence: the extractor returns nothing
C12_NothingFromShortText ==
    /\ Extracted
    /\ text = TEXT_SHORT
    /\ sentences = <<>>
    /\ all_questions = <<>>

\* C13: with at least one sentence, when the structured rules give fewer
\* candidates than needed (none included), the general templates give at least
\* one, and the extractor returns a non-empty list for every needed count >= 1.
C13_TemplatesGiveSomething ==
    (Extracted /\ Len(sentences) >= 1) =>
        /\ all_questions # <<>>
        /\ Len(RuleCards(all_questions)) < num_cards =>
              GeneralCards(all_questions) # <<>>

\* no rule matches, the text has sentences, and every card comes from a template
C13_Witness ==
    /\ Extracted
    /\ Len(sentences) >= 1
    /\ NoRuleMatches
    /\ all_questions # <<>>
    /\ RuleCards(all_questions) = <<>>

\* the matches of every rule in one text, with their positions, rule pi onwards
RECURSIVE RuleMatchesFrom(_, _)
RuleMatchesFrom(content, pi) ==
    IF pi > Len(concept_patterns) THEN <<>>
    ELSE <<FindFrom(MatchCandidates(concept_patterns[pi], content), 1)>>
         \o RuleMatchesFrom(content, pi + 1)

RECURSIVE PositionsFrom(_)
PositionsFrom(k) ==
    IF k > Len(Texts) THEN <<>>
    ELSE <<RuleMatchesFrom(Texts[k], 1)>> \o PositionsFrom(k + 1)

\* PositionTable[k][pi]: the matches of rule pi in Texts[k], each
\* <<start, first, last, g2, end, mid>>
PositionTable == PositionsFrom(1)

TextIndex == CHOOSE k \in 1..Len(Texts) : Texts[k] = text

\* what rule pi makes of the match m of the text: the question and the answer
Rendering(pi, m) ==
    LET p  == concept_patterns[pi]
        g1 == strip(SubSeq(text, m[2], m[3]))
        g2 == strip(SubSeq(text, m[4], m[5] - 1))
    IN  [question |-> p.question_template[1] \o g1 \o p.question_template[2],
         answer |-> p.answer_template[1] \o g1 \o p.answer_template[2] \o g2
                        \o p.answer_template[3],
         usable |-> Len(g1) > MIN_GROUP_LEN /\ Len(g2) > MIN_GROUP_LEN]

\* the candidates of the rules pi.. tried to exhaustion: by rule, then by match
RECURSIVE RuleCandidatesFrom(_)
RuleCandidatesFrom(pi) ==
    IF pi > Len(concept_patterns) THEN <<>>
    ELSE LET ms == PositionTable[TextIndex][pi]
             rendered == [k \in 1..Len(ms) |-> Rendering(pi, ms[k])]
         IN  SelectSeq(rendered, LAMBDA r : r.usable) \o RuleCandidatesFrom(pi + 1)

\* the matches of every rule come in the order of their positions in the text
MatchesInTextOrder ==
    \A pi \in 1..Len(concept_patterns) :
        LET ms == PositionTable[TextIndex][pi]
        IN  \A k \in 1..(Len(ms) - 1) : ms[k][1] < ms[k + 1][1]

\* cards is, question by question and answer by answer, the first cards of expected
IsPrefixOf(cards, expected) ==
    /\ Len(cards) <= Len(expected)
    /\ \A i \in Positions(cards) :
          /\ cards[i].question = expected[i].question
          /\ cards[i].answer = expected[i].answer

RULE_FAMILIES == <<"definitions", "processes", "functions", "characteristics">>

FamilyRank(card) == CHOOSE r \in 1..Len(RULE_FAMILIES) : RULE_FAMILIES[r] = card.category

\* C19: the extractor never returns more than the needed count; rule
\* candidates appear in rule-family priority order; template candidates appear
\* only after all rule candidates, and only when the rules, tried to
\* exhaustion, gave fewer than the needed count.
C19_RulesBeforeTemplates ==
    Extracted =>
      LET rules == RuleCards(all_questions)
      IN  /\ Len(all_questions) <= num_cards
          /\ \A i, j \in Positions(rules) :
                i < j => FamilyRank(rules[i]) <= FamilyRank(rules[j])
          /\ \A i, j \in Positions(all_questions) :
                (i < j /\ all_questions[i].type = "general_template") =>
                    all_questions[j].type = "general_template"
          /\ GeneralCards(all_questions) # <<>> =>
                /\ Len(RuleCandidatesFrom(1)) < num_cards
                /\ Len(rules) = Len(RuleCandidatesFrom(1))
          /\ Len(RuleCandidatesFrom(1)) >= num_cards =>
                Len(rules) = num_cards

\* rule cards of two families, then template cards
C19_Witness ==
    /\ Extracted
    /\ \E i, j \in Positions(all_questions) :
          /\ i < j
          /\ all_questions[i].type = "pattern_definitions"
          /\ all_questions[j].type = "pattern_processes"
    /\ GeneralCards(all_questions) # <<>>

\* more rule candidates than needed: the list is cut and no template is used
C19_WitnessCut ==
    /\ Extracted
    /\ Len(RuleCandidatesFrom(1)) > num_cards
    /\ Len(all_questions) = num_cards

\* the accepted pool entries that are the first of their key, in pool order
FirstOfKey(pool) ==
    LET firsts == {i \in Accepted(pool) :
                      \A j \in Accepted(pool) : j < i => KeyOf(pool[j]) # KeyOf(pool[i])}
    IN  SelectSeq([i \in Positions(pool) |-> i], LAMBDA i : i \in firsts)

\* C18: the output of _ensure_question_quality is an order-preserving
\* subsequence of the pool: for each normalized key the first accepted entry is
\* the one kept, later entries with that key are dropped, and the scan stops
\* once the n-th entry has been accepted.
C18_FirstOfEachKeyInPoolOrder ==
    Done =>
      LET firsts == FirstOfKey(all_questions)
      IN  /\ Len(final_questions) = MinOf({num_cards, Len(firsts)})
          /\ \A k \in Positions(final_questions) :
                final_questions[k] = all_questions[firsts[k]]

\* a key met twice with different cards, then a card of another key: the first
\* card of the repeated key and the later card are returned, in that order
C18_Witness ==
    /\ Done
    /\ Len(final_questions) = 2
    /\ \E i, j, k \in Accepted(all_questions) :
          /\ i < j /\ j < k
          /\ KeyOf(all_questions[i]) = KeyOf(all_questions[j])
          /\ all_questions[i] # all_questions[j]
          /\ KeyOf(all_questions[k]) # KeyOf(all_questions[i])
          /\ final_questions = <<all_questions[i], all_questions[k]>>

\* the target is met before the pool is exhausted: later first entries are left out
C18_WitnessStopsAtTarget ==
    /\ Done
    /\ Len(FirstOfKey(all_questions)) > num_cards
    /\ Len(final_questions) = num_cards

FLASHCARD_FIELDS == {"id", "question", "answer", "difficulty", "type"}

DIFFICULTIES == {"easy", "medium", "hard"}

\* how many cards of the pool the AI requester contributed: the extractor,
\* when called, was asked for num_cards less that many
AIContribution ==
    IF PatternCalls = <<>> THEN Len(all_questions)
    ELSE num_cards - PatternCalls[1].num

\* the card is what a rule of the family its tag names makes of a match
FromRuleOfItsFamily(card) ==
    \E pi \in 1..Len(concept_patterns) :
        /\ card.type = "pattern_" \o concept_patterns[pi].category
        /\ \E k \in Positions(PositionTable[TextIndex][pi]) :
              LET r == Rendering(pi, PositionTable[TextIndex][pi][k])
              IN  r.usable /\ r.question = card.question /\ r.answer = card.answer

\* the card is one of the general templates of the text
FromTemplate(card) ==
    /\ card.type = "general_template"
    /\ sentences # <<>>
    /\ \E k \in Positions(GeneralTemplates(sentences, text)) :
          GeneralTemplates(sentences, text)[k] = <<card.question, card.answer>>

\* C15: every flashcard returned by generate_flashcards carries the fields id,
\* question, answer, difficulty and type, with difficulty one of easy, medium,
\* hard, and type naming the strategy that produced the card: a card the AI
\* requester contributed is tagged as AI-generated, a card the extractor
\* contributed is tagged with its rule family or as a general template.
C15_CardsCarryTheirStrategy ==
    Done =>
      /\ \A i \in Positions(final_questions) :
            /\ FLASHCARD_FIELDS \subseteq DOMAIN final_questions[i]
            /\ final_questions[i].difficulty \in DIFFICULTIES
            /\ \E j \in Positions(all_questions) : all_questions[j] = final_questions[i]
      /\ \A j \in Positions(all_questions) :
            IF j <= AIContribution
            THEN all_questions[j].type = "gemini_generated"
            ELSE FromRuleOfItsFamily(all_questions[j]) \/ FromTemplate(all_questions[j])

\* an AI card and a rule card are returned together
C15_Witness ==
    /\ Done
    /\ \E i, j \in Positions(final_questions) :
          /\ final_questions[i].type = "gemini_generated"
          /\ final_questions[j].type \in {"pattern_" \o RULE_FAMILIES[r] :
                                             r \in 1..Len(RULE_FAMILIES)}

\* an AI card and a template card are returned together
C15_WitnessTemplate ==
    /\ Done
    /\ \E i, j \in Positions(final_questions) :
          /\ final_questions[i].type = "gemini_generated"
          /\ final_questions[j].type = "general_template"

(***************************************************************************)
(* generate_flashcards as a call that is scheduled until it returns: no    *)
(* step of it waits on anything but the provider, and requests.post is     *)
(* given timeout=30, so the provider's answer or a Timeout always comes    *)
(***************************************************************************)
\* the places of generate_flashcards
PLACES == {"start", "gemini", "pattern", "quality", "done"}

\* a step of the running call: it leaves the place it is at. Every action of
\* Next changes pc, and one of them is enabled at every place but "done", so
\* fairness on Proceed is weak fairness on Next.
Proceed == pc # "done" /\ pc' \in PLACES /\ pc' # pc

SpecFair == Init /\ [][Next]_vars /\ WF_pc(Proceed)

\* the outbound calls made to the provider
ProviderCalls == SelectSeq(calls, LAMBDA c : c.fn = "requests.post")

\* C16: every generate_flashcards call terminates by returning a (possibly
\* short or empty) sequence: it never raises, it does not block, and it makes
\* a bounded number of outbound provider calls (at most one), whatever the
\* provider answers.
C16_AlwaysReturns ==
    /\ <>Done
    /\ [](~ raised)
    /\ [](Len(ProviderCalls) <= 1)
    /\ [](Done => Len(final_questions) <= num_cards)

\* the provider failed in a way only the last except clause catches, and the
\* call has returned what the extractor gave
C16_Witness ==
    /\ Done
    /\ Len(ProviderCalls) = 1
    /\ \/ response.kind \in {"timeout", "connection_error"}
       \/ response.kind = "http" /\ response.status_code # HTTP_OK
    /\ ~ raised
    /\ final_questions # <<>>

\* the body decoded to something that is not a list of objects
C16_WitnessMalformed ==
    /\ Done
    /\ response.kind = "http" /\ response.status_code = HTTP_OK
    /\ \/ response.body.json = "invalid"
       \/ \E i \in Positions(Considered) : Considered[i].json # "object"
    /\ ~ raised

(***************************************************************************)
(* POST /api/generate-flashcards: the handler around the generator         *)
(***************************************************************************)
MIN_TEXT_LEN == 20

DEFAULT_NUM_CARDS == 5

FREE_MAX_CARDS == 5

PREMIUM_MAX_CARDS == 10

HTTP_BAD_REQUEST == 400

HTTP_SUCCESS == 200

\* 25 characters and 4 words: long enough for the handler, too short for the
\* segmenter, and no rule matches it
TEXT_QUIET == "Cells divide quite often."

\* the active, unexpired rows of the premium_users table
PREMIUM_USERS == {"pro@example.com"}

\* TierManager.check_user_tier: the premium_users table is read only when the
\* application runs on the database
check_user_tier(user_email) ==
    IF user_email = "" THEN "free"
    ELSE IF use_supabase /\ user_email \in PREMIUM_USERS THEN "premium"
    ELSE "free"

EmptyObject == [k \in {} |-> ""]

\* the num_cards values a request may carry
RequestCounts == (0..MaxCards) \cup {FREE_MAX_CARDS + 1, PREMIUM_MAX_CARDS + 1}

RequestTexts == {TEXT_SHORT, TEXT_QUIET, "  " \o TEXT_ATOM \o "\n"}

RequestEmails == {"student@example.com", "pro@example.com"}

\* request.get_json(): null, or an object with some of text, num_cards, user_email
Requests ==
    {[json |-> "null"], [json |-> "object", fields |-> EmptyObject]}
    \cup {[json |-> "object", fields |-> [num_cards |-> 1]]}
    \cup {[json |-> "object", fields |-> [text |-> t]] : t \in RequestTexts}
    \cup {[json |-> "object", fields |-> [text |-> t, num_cards |-> n]] :
             t \in RequestTexts, n \in RequestCounts}
    \cup {[json |-> "object", fields |-> [text |-> t, num_cards |-> n, user_email |-> e]] :
             t \in RequestTexts, n \in RequestCounts, e \in RequestEmails}

\* `not data`
NoData(req) == req.json = "null" \/ DOMAIN req.fields = {}

request_text(req) == strip(Get(req.fields, "text", ""))

request_num_cards(req) == Get(req.fields, "num_cards", DEFAULT_NUM_CARDS)

request_user_tier(req) ==
    LET user_email == Get(req.fields, "user_email", "")
    IN  IF user_email # "" THEN check_user_tier(user_email) ELSE "free"

request_max_cards(req) ==
    IF request_user_tier(req) = "premium" THEN PREMIUM_MAX_CARDS ELSE FREE_MAX_CARDS

\* the error the input validation answers with, "" when the request passes
Rejection(req) ==
    IF NoData(req) THEN "No data provided"
    ELSE IF request_text(req) = "" \/ Len(request_text(req)) < MIN_TEXT_LEN
      THEN "Text too short, provide at least 20 characters"
    ELSE IF request_num_cards(req) < 1 \/ request_num_cards(req) > request_max_cards(req)
      THEN "Number of cards must be between 1 and " \o ToString(request_max_cards(req))
    ELSE ""

HttpInit ==
    /\ text = TEXT_EMPTY
    /\ sentences = <<>>
    /\ paragraphs = <<>>
    /\ gemini_api_key \in ApiKeys
    /\ num_cards = 0
    /\ pc = "request"
    /\ response = NoResponse
    /\ all_questions = <<>>
    /\ final_questions = <<>>
    /\ calls = <<>>
    /\ raised = FALSE
    /\ gate_in = GateIdle
    /\ gate_out = NoOutput
    /\ http_request \in Requests
    /\ http_response = NoReply
    /\ other = NoOther
    /\ use_supabase = TRUE
    /\ AppLoaded

\* lines 791-812: the input validation; a request that passes builds the
\* generator on the stripped text and calls generate_flashcards
Validate ==
    /\ pc = "request"
    /\ IF Rejection(http_request) # ""
       THEN /\ http_response' = [status |-> HTTP_BAD_REQUEST,
                                 error |-> Rejection(http_request)]
            /\ pc' = "responded"
            /\ UNCHANGED <<text, sentences, paragraphs, num_cards>>
       ELSE /\ text' = request_text(http_request)
            /\ sentences' = _split_into_sentences(request_text(http_request))
            /\ paragraphs' = _split_into_paragraphs(request_text(http_request))
            /\ num_cards' = request_num_cards(http_request)
            /\ pc' = "start"
            /\ UNCHANGED http_response
    /\ UNCHANGED <<gemini_api_key, response, all_questions, final_questions,
                   calls, raised, http_request>>
    /\ UNCHANGED gate_vars
    /\ UNCHANGED <<other, app_vars>>

\* a plausible slip: the count asked for reported as the count generated
RespondRequestedCount ==
    /\ pc = "done"
    /\ http_request # NoRequest
    /\ http_response' =
          IF raised THEN [status |-> 500, error |-> "Internal Server Error"]
          ELSE IF final_questions = <<>>
            THEN [status |-> HTTP_BAD_REQUEST, error |-> "Unable to generate flashcards"]
          ELSE [status |-> HTTP_SUCCESS,
                flashcards |-> final_questions,
                total_generated |-> num_cards,
                source_text_length |-> Len(text),
                user_tier |-> request_user_tier(http_request),
                max_cards_allowed |-> request_max_cards(http_request)]
    /\ pc' = "responded"
    /\ UNCHANGED <<pipeline_vars_but_pc, http_request>>
    /\ UNCHANGED gate_vars
    /\ UNCHANGED <<other, app_vars>>

\* lines 813-825: the answer, once generate_flashcards has returned; an
\* exception leaving the view is answered by the framework with status 500.
\* generated_at, the clock's reading, is left out.
Respond ==
    /\ pc = "done"
    /\ http_request # NoRequest
    /\ http_response' =
          IF raised THEN [status |-> 500, error |-> "Internal Server Error"]
          ELSE IF final_questions = <<>>
            THEN [status |-> HTTP_BAD_REQUEST, error |-> "Unable to generate flashcards"]
          ELSE [status |-> HTTP_SUCCESS,
                flashcards |-> final_questions,
                total_generated |-> Len(final_questions),
                source_text_length |-> Len(text),
                user_tier |-> request_user_tier(http_request),
                max_cards_allowed |-> request_max_cards(http_request)]
    /\ pc' = "responded"
    /\ UNCHANGED <<pipeline_vars_but_pc, http_request>>
    /\ UNCHANGED gate_vars
    /\ UNCHANGED <<other, app_vars>>

HttpNext == Validate \/ Start \/ CallGemini \/ CallPattern \/ QualityControl \/ Respond

SpecHttp == HttpInit /\ [][HttpNext]_vars

Responded == pc = "responded"

\* the request passed the input validation and generate_flashcards was called
PassedValidation == Rejection(http_request) = ""

\* C17: at POST /api/generate-flashcards, for a request that passed input
\* validation, a generation yielding zero flashcards is answered with an error
\* response, and a generation yielding between 1 and n-1 flashcards is answered
\* with a success response whose total_generated is the shorter count.
C17_ShortIsSuccessEmptyIsError ==
    (Responded /\ PassedValidation) =>
      /\ final_questions = <<>> =>
            /\ http_response.status = HTTP_BAD_REQUEST
            /\ http_response.error = "Unable to generate flashcards"
      /\ (Len(final_questions) >= 1 /\ Len(final_questions) < num_cards) =>
            /\ http_response.status = HTTP_SUCCESS
            /\ http_response.total_generated = Len(final_questions)
            /\ http_response.total_generated < request_num_cards(http_request)
            /\ http_response.flashcards = final_questions

\* a valid request for three cards is answered with the two that were generated
C17_Witness ==
    /\ Responded /\ PassedValidation
    /\ num_cards = 3
    /\ Len(final_questions) = 2
    /\ http_response.status = HTTP_SUCCESS

\* a valid request whose generation gave nothing is answered with an error
C17_WitnessNothing ==
    /\ Responded /\ PassedValidation
    /\ final_questions = <<>>
    /\ http_response.status = HTTP_BAD_REQUEST

(***************************************************************************)
(* The segmenter on its own: texts made of a few fragments around the      *)
(* limits of the cleaning loop                                             *)
(***************************************************************************)
MaxFragments == 2

\* 24 characters, 5 words
FRAGMENT_24_5 == "Big cats eat fish daily."

\* 25 characters, 5 words
FRAGMENT_25_5 == "Most cats eat fish daily."

\* 26 characters, 5 words
FRAGMENT_26_5 == "Some birds eat fish daily."

\* 26 characters with a double blank, 25 once the blanks are collapsed
FRAGMENT_26_WIDE == "Most cats eat  fish daily."

\* 40 characters, 4 words
FRAGMENT_40_4 == "Photosynthesis produces glucose quickly."

FRAGMENT_LONG == "Plants turn light into sugar in their leaves."

FRAGMENT_TINY == "Cells divide!"

FRAGMENT_ASK == "Why do the big cats eat fish?"

FragmentPool ==
    {FRAGMENT_24_5, FRAGMENT_25_5, FRAGMENT_26_5, FRAGMENT_26_WIDE, FRAGMENT_40_4,
     FRAGMENT_LONG, FRAGMENT_TINY, FRAGMENT_ASK}

\* " ".join(fragments)
RECURSIVE JoinFragments(_)
JoinFragments(fragments) ==
    IF fragments = <<>> THEN ""
    ELSE IF Len(fragments) = 1 THEN fragments[1]
    ELSE fragments[1] \o " " \o JoinFragments(Tail(fragments))

\* sep.join(fragments)
RECURSIVE JoinWith(_, _)
JoinWith(fragments, sep) ==
    IF fragments = <<>> THEN ""
    ELSE IF Len(fragments) = 1 THEN fragments[1]
    ELSE fragments[1] \o sep \o JoinWith(Tail(fragments), sep)

SegmentInit ==
    /\ \E fragments \in SeqsUpTo(FragmentPool, MaxFragments) :
          \E sep \in {" ", PARAGRAPH_BREAK} : text = JoinWith(fragments, sep)
    /\ sentences = <<>>
    /\ paragraphs = <<>>
    /\ gemini_api_key = ""
    /\ num_cards = 1
    /\ pc = "segment"
    /\ response = NoResponse
    /\ all_questions = <<>>
    /\ final_questions = <<>>
    /\ calls = <<>>
    /\ raised = FALSE
    /\ gate_in = GateIdle
    /\ gate_out = NoOutput
    /\ http_request = NoRequest
    /\ http_response = NoReply
    /\ other = NoOther
    /\ AppIdle

\* __init__, lines 20-21: the two derived views of the text
Segment ==
    /\ pc = "segment"
    /\ sentences' = _split_into_sentences(text)
    /\ paragraphs' = _split_into_paragraphs(text)
    /\ pc' = "segmented"
    /\ UNCHANGED <<text, gemini_api_key, num_cards, response, all_questions,
                   final_questions, calls, raised>>
    /\ UNCHANGED gate_vars
    /\ UNCHANGED <<other, app_vars>>
    /\ UNCHANGED http_vars

SpecSegment == SegmentInit /\ [][Segment]_vars

Segmented == pc = "segmented"

\* the fragments the text splits into, stripped
SplitFragments == [k \in Positions(re_split(text)) |-> strip(re_split(text)[k])]

\* the fragments of at least min_len characters and at least 5 words, each
\* with its runs of blanks collapsed
FragmentsKept(min_len) ==
    LET kept == SelectSeq(SplitFragments,
                    LAMBDA f : Len(f) >= min_len /\ split_len(f) >= MIN_SENTENCE_WORDS)
    IN  [k \in Positions(kept) |-> sub_spaces(kept[k])]

\* C20 as stated: the segmenter keeps a split fragment exactly when it has at
\* least 25 characters and at least 5 words, so a 25-character, 5-word
\* fragment is kept.
C20_KeptFrom25Characters ==
    Segmented => sentences = FragmentsKept(25)

\* C20, amended: the segmenter keeps a split fragment exactly when it has more
\* than 25 characters (at least 26, counted on the stripped fragment before its
\* blanks are collapsed) and at least 5 words; a 25-character, 5-word fragment
\* is discarded.
C20_KeptFrom26Characters ==
    Segmented => sentences = FragmentsKept(26)

\* a 25-character, 5-word fragment is discarded next to a 26-character one that is kept
C20_Witness ==
    /\ Segmented
    /\ \E i, j \in Positions(SplitFragments) :
          /\ Len(SplitFragments[i]) = 25 /\ split_len(SplitFragments[i]) = 5
          /\ Len(SplitFragments[j]) = 26 /\ split_len(SplitFragments[j]) = 5
          /\ sentences = <<SplitFragments[j]>>

\* a fragment of more than 25 characters and four words is discarded
C20_WitnessFewWords ==
    /\ Segmented
    /\ \E i \in Positions(SplitFragments) :
          /\ Len(SplitFragments[i]) > 26 /\ split_len(SplitFragments[i]) = 4
    /\ sentences = <<>>

(***************************************************************************)
(* The comparison key on its own: questions made of a few words, some      *)
(* with punctuation inside them                                            *)
(***************************************************************************)
MaxWords == 2

WordPool == {"What", "is", "i-s", "a.n", "atom?", "The", "d'o", "U.S."}

NormalizeInit ==
    /\ \E words \in SeqsUpTo(WordPool, MaxWords) : text = JoinFragments(words)
    /\ sentences = <<>>
    /\ paragraphs = <<>>
    /\ gemini_api_key = ""
    /\ num_cards = 1
    /\ pc = "normalize"
    /\ response = NoResponse
    /\ all_questions = <<>>
    /\ final_questions = <<>>
    /\ calls = <<>>
    /\ raised = FALSE
    /\ gate_in = GateIdle
    /\ gate_out = NoOutput
    /\ http_request = NoRequest
    /\ http_response = NoReply
    /\ other = NoOther
    /\ AppIdle

\* _normalize_for_comparison applied to the question
Normalize ==
    /\ pc = "normalize"
    /\ calls' = Append(calls, [fn |-> "_normalize_for_comparison", arg |-> text,
                               result |-> _normalize_for_comparison(text)])
    /\ pc' = "normalized"
    /\ UNCHANGED <<text, sentences, paragraphs, gemini_api_key, num_cards, response,
                   all_questions, final_questions, raised>>
    /\ UNCHANGED gate_vars
    /\ UNCHANGED <<other, app_vars>>
    /\ UNCHANGED http_vars

\* _normalize_for_comparison applied to the key it returned
NormalizeAgain ==
    /\ pc = "normalized"
    /\ calls' = Append(calls, [fn |-> "_normalize_for_comparison",
                               arg |-> calls[1].result,
                               result |-> _normalize_for_comparison(calls[1].result)])
    /\ pc' = "normalized_twice"
    /\ UNCHANGED <<text, sentences, paragraphs, gemini_api_key, num_cards, response,
                   all_questions, final_questions, raised>>
    /\ UNCHANGED gate_vars
    /\ UNCHANGED <<other, app_vars>>
    /\ UNCHANGED http_vars

NormalizeNext == Normalize \/ NormalizeAgain

SpecNormalize == NormalizeInit /\ [][NormalizeNext]_vars

\* C30: _normalize_for_comparison is idempotent: normalizing the key of a
\* string again returns the same key.
C30_NormalizeIsIdempotent ==
    pc = "normalized_twice" => calls[2].result = calls[1].result

\* stripping the punctuation of "i-s" leaves the stopword "is", which the
\* second pass removes
C30_KeyChanges ==
    /\ pc = "normalized_twice"
    /\ calls[1].result = "is atom"
    /\ calls[2].result = "atom"

\* C21: for empty input text the segmenter yields empty sequences for both
\* derived views, sentences and paragraphs, and constructing the generator
\* does not raise.
C21_EmptyTextGivesEmptyViews ==
    (Segmented /\ text = "") =>
        (sentences = <<>> /\ paragraphs = <<>> /\ ~ raised)

\* the generator built on the empty text: no sentence, and one empty paragraph
C21_OneEmptyParagraph ==
    /\ Segmented
    /\ text = ""
    /\ sentences = <<>>
    /\ paragraphs = <<"">>
    /\ ~ raised

\* the provider answered with a rate-limit or a "model warming up" status
RateLimited == response.kind = "http" /\ response.status_code \in {429, 503}

\* C22: when the provider answers with a rate-limit or "model warming up"
\* response, the AI requester retries (at most 3 attempts per model) and then
\* moves to the next model: a call that was so answered has made more than one
\* outbound request by the time it returns.
C22_RetriesAfterRateLimit ==
    (Done /\ RateLimited) => Len(ProviderCalls) > 1

\* the provider was rate-limited: one request was made, no AI card came back
\* and the extractor filled the list
C22_OneAttemptOnly ==
    /\ Done
    /\ RateLimited
    /\ Len(ProviderCalls) = 1
    /\ AICards = <<>>
    /\ final_questions # <<>>

(***************************************************************************)
(* Two generation requests, each on its own FlashcardGenerator, whose      *)
(* steps interleave: the variables hold the request that is running, other *)
(* the request that is waiting                                             *)
(***************************************************************************)
\* the running request, as a record
Running(name) ==
    [name |-> name, text |-> text, sentences |-> sentences, paragraphs |-> paragraphs,
     gemini_api_key |-> gemini_api_key, num_cards |-> num_cards, pc |-> pc,
     response |-> response, all_questions |-> all_questions,
     final_questions |-> final_questions, calls |-> calls, raised |-> raised]

\* app.py lines 811-812 for a request: a generator on the text, about to run
Request(name, t, key, n) ==
    [name |-> name, text |-> t, sentences |-> _split_into_sentences(t),
     paragraphs |-> _split_into_paragraphs(t), gemini_api_key |-> key,
     num_cards |-> n, pc |-> "start", response |-> NoResponse,
     all_questions |-> <<>>, final_questions |-> <<>>, calls |-> <<>>,
     raised |-> FALSE]

TwoInit ==
    /\ text = TEXT_ATOM
    /\ sentences = _split_into_sentences(TEXT_ATOM)
    /\ paragraphs = _split_into_paragraphs(TEXT_ATOM)
    /\ gemini_api_key \in {"", "AIza-key"}
    /\ num_cards = MaxCards
    /\ pc = "start"
    /\ response = NoResponse
    /\ all_questions = <<>>
    /\ final_questions = <<>>
    /\ calls = <<>>
    /\ raised = FALSE
    /\ gate_in = GateIdle
    /\ gate_out = NoOutput
    /\ http_request = NoRequest
    /\ http_response = NoReply
    /\ \E t \in {TEXT_ATOM, TEXT_MARKET} : other = Request("second", t, "", 2)
    /\ AppIdle

\* the scheduler takes the running request off and puts the waiting one on
Switch ==
    /\ other # NoOther
    /\ other' = Running(IF other.name = "second" THEN "first" ELSE "second")
    /\ text' = other.text
    /\ sentences' = other.sentences
    /\ paragraphs' = other.paragraphs
    /\ gemini_api_key' = other.gemini_api_key
    /\ num_cards' = other.num_cards
    /\ pc' = other.pc
    /\ response' = other.response
    /\ all_questions' = other.all_questions
    /\ final_questions' = other.final_questions
    /\ calls' = other.calls
    /\ raised' = other.raised
    /\ UNCHANGED gate_vars
    /\ UNCHANGED http_vars
    /\ UNCHANGED app_vars

TwoNext == Start \/ CallGemini \/ CallPattern \/ QualityControl \/ Switch

SpecTwo == TwoInit /\ [][TwoNext]_vars

\* what generate_flashcards returns for request r when it runs alone and the
\* provider answers it as it answered r
Alone(r) ==
    IF IsEmptyText(r.text) THEN <<>>
    ELSE
      LET ai == IF KeyConfigured(r.gemini_api_key)
                THEN _try_gemini_generation(r.gemini_api_key, r.text, r.num_cards,
                                            r.response).cards
                ELSE <<>>
          remaining == r.num_cards - Len(ai)
          pool == IF remaining > 0
                  THEN ai \o AdjustIds(_create_pattern_based_questions(r.sentences,
                                           r.text, remaining), Len(ai))
                  ELSE ai
      IN  _ensure_question_quality(pool, r.num_cards)

\* C23: two generation requests running concurrently on separate
\* FlashcardGenerator instances do not interfere: under every interleaving
\* each request returns the sequence it returns when run alone.
C23_RequestsDoNotInterfere ==
    /\ Done => final_questions = Alone(Running("running"))
    /\ (other # NoOther /\ other.pc = "done") => other.final_questions = Alone(other)

\* both requests have returned cards, one of them cards of the AI requester
C23_Witness ==
    /\ Done
    /\ other # NoOther /\ other.pc = "done"
    /\ final_questions # <<>>
    /\ other.final_questions # <<>>
    /\ AICards # <<>> \/ \E i \in Positions(other.all_questions) :
                            other.all_questions[i].type = "gemini_generated"

(***************************************************************************)
(* app.py: the flashcard sets, kept in the flashcard_sets table when the   *)
(* application runs on the database and in flashcard_storage otherwise     *)
(***************************************************************************)

HTTP_FORBIDDEN == 403

HTTP_NOT_FOUND == 404

\* the saves one behaviour makes
MaxOps == 2

\* None where the code only tests its truth: no user_email, no set
NoEmail == ""

None == EmptyDict

\* how one call of the database client ends
DbOutcomes == {"ok", "empty", "fails"}

\* the outcomes an endpoint can meet: none without the database
Db == IF use_supabase THEN DbOutcomes ELSE {"unused"}

UserEmails == {NoEmail} \cup RequestEmails

\* the bodies of POST /api/flashcards
SaveRequests ==
    {[json |-> "null"], [json |-> "object", fields |-> EmptyObject]}
    \cup {[json |-> "object", fields |-> [title |-> t]] : t \in {" ", "Atoms"}}
    \cup {[json |-> "object", fields |-> [title |-> t, flashcards |-> <<CARD_ATOM>>]] :
            t \in {" ", "Atoms"}}
    \cup {[json |-> "object",
           fields |-> [title |-> "Atoms", flashcards |-> <<CARD_ATOM>>,
                       tier_required |-> "premium"]]}
    \cup {[json |-> "object",
           fields |-> [title |-> "Atoms", flashcards |-> <<CARD_ATOM>>,
                       user_email |-> e]] : e \in RequestEmails}
    \cup {[json |-> "object",
           fields |-> [title |-> "Atoms", flashcards |-> <<CARD_ATOM>>,
                       user_email |-> e, tier_required |-> "premium"]] :
            e \in RequestEmails}

\* the set ids a request may name
SetIds == 1..(MaxOps + 1)

\* a plausible slip: the id taken from the number of sets stored
SaveToMemoryByCount(flashcard_set) ==
    LET id == Cardinality(DOMAIN flashcard_storage) + 1
    IN  [flashcard_set |-> With(flashcard_set, "id", id),
         flashcard_storage |-> With(flashcard_storage, id,
                                    With(flashcard_set, "id", id)),
         storage_counter |-> storage_counter + 1,
         flashcard_sets |-> flashcard_sets]

\* FlashcardStorage._save_to_memory: the set returned and the globals it leaves
_save_to_memory(flashcard_set) ==
    [flashcard_set |-> With(flashcard_set, "id", storage_counter),
     flashcard_storage |-> With(flashcard_storage, storage_counter,
                                With(flashcard_set, "id", storage_counter)),
     storage_counter |-> storage_counter + 1,
     flashcard_sets |-> flashcard_sets]

\* the insert into the flashcard_sets table: the database gives the row its id
InsertRow(flashcard_set) ==
    [flashcard_set |-> With(flashcard_set, "id", flashcard_sets.next_id),
     flashcard_storage |-> flashcard_storage,
     storage_counter |-> storage_counter,
     flashcard_sets |->
        [rows |-> With(flashcard_sets.rows, flashcard_sets.next_id,
                       With(flashcard_set, "id", flashcard_sets.next_id)),
         next_id |-> flashcard_sets.next_id + 1]]

\* FlashcardStorage.save_flashcard_set; created_at, the clock's reading, is
\* left out of the set
save_flashcard_set(title, flashcards, original_text, card_statuses, user_email, tier_required, db) ==
    LET flashcard_set == [title |-> title,
                          flashcards |-> flashcards,
                          original_text |-> original_text,
                          card_statuses |-> card_statuses,
                          total_cards |-> Len(flashcards),
                          tier_required |-> tier_required,
                          user_email |-> user_email]
    IN  IF use_supabase /\ db = "ok" THEN InsertRow(flashcard_set)
        ELSE _save_to_memory(flashcard_set)

\* the reply of save_flashcards when it stores nothing, "" when it stores
SaveRejection(req) ==
    IF NoData(req) THEN [status |-> HTTP_BAD_REQUEST, error |-> "No data provided"]
    ELSE IF strip(Get(req.fields, "title", "")) = ""
            \/ Get(req.fields, "flashcards", <<>>) = <<>>
      THEN [status |-> HTTP_BAD_REQUEST, error |-> "Title and flashcards are required"]
    ELSE IF /\ Get(req.fields, "tier_required", "free") = "premium"
            /\ Get(req.fields, "user_email", NoEmail) # NoEmail
            /\ check_user_tier(req.fields.user_email) # "premium"
      THEN [status |-> HTTP_FORBIDDEN, error |-> "Premium subscription required"]
    ELSE NoReply

\* POST /api/flashcards, save_flashcards
SaveFlashcards ==
    /\ Len(calls) < MaxOps
    /\ \E req \in SaveRequests, db \in Db :
          /\ http_request' = req
          /\ IF SaveRejection(req) # NoReply
             THEN /\ http_response' = SaveRejection(req)
                  /\ pc' = "rejected"
                  /\ UNCHANGED <<flashcard_sets, flashcard_storage,
                                 storage_counter, calls>>
             ELSE LET title == strip(req.fields.title)
                      tier_required == Get(req.fields, "tier_required", "free")
                      saved == save_flashcard_set(
                                  title, req.fields.flashcards,
                                  Get(req.fields, "original_text", ""),
                                  Get(req.fields, "card_statuses", <<>>),
                                  Get(req.fields, "user_email", NoEmail),
                                  tier_required, db)
                  IN  /\ flashcard_sets' = saved.flashcard_sets
                      /\ flashcard_storage' = saved.flashcard_storage
                      /\ storage_counter' = saved.storage_counter
                      /\ calls' = Append(calls, saved.flashcard_set)
                      /\ http_response' =
                            [status |-> HTTP_SUCCESS,
                             message |-> "Flashcard set saved successfully",
                             id |-> saved.flashcard_set.id,
                             title |-> title,
                             total_cards |-> Len(req.fields.flashcards),
                             tier_required |-> tier_required,
                             storage_type |-> IF use_supabase THEN "Supabase"
                                              ELSE "Memory"]
                      /\ pc' = "saved"
    /\ UNCHANGED <<text, sentences, paragraphs, gemini_api_key, num_cards,
                   response, all_questions, final_questions, raised>>
    /\ UNCHANGED gate_vars
    /\ UNCHANGED <<other, use_supabase, payment_storage, payment_counter, savers>>

\* dict.pop(key, None) and dict.get(key)
Without(d, key) == [k \in DOMAIN d \ {key} |-> d[k]]

\* TierManager.can_access_flashcard_set, db the outcome of its query
can_access_flashcard_set(user_email, set_id, db) ==
    IF use_supabase
    THEN IF db = "fails" THEN FALSE
         ELSE IF db = "empty" \/ set_id \notin DOMAIN flashcard_sets.rows THEN FALSE
         ELSE IF flashcard_sets.rows[set_id].tier_required = "free" THEN TRUE
         ELSE IF flashcard_sets.rows[set_id].tier_required = "premium"
           THEN check_user_tier(user_email) = "premium"
         ELSE FALSE
    ELSE TRUE

\* FlashcardStorage.get_set, access_db and db the outcomes of its two queries
get_set(set_id, user_email, access_db, db) ==
    IF use_supabase
    THEN IF user_email # NoEmail
            /\ ~can_access_flashcard_set(user_email, set_id, access_db)
         THEN [error |-> "Access denied", tier_required |-> "premium"]
         ELSE IF db = "fails" THEN Get(flashcard_storage, set_id, None)
         ELSE IF db = "ok" THEN Get(flashcard_sets.rows, set_id, None)
         ELSE None
    ELSE Get(flashcard_storage, set_id, None)

\* GET /api/flashcards/<set_id>, get_flashcard_set
GetFlashcardSet ==
    /\ \E set_id \in SetIds, user_email \in UserEmails, access_db \in Db, db \in Db :
          LET flashcard_set == get_set(set_id, user_email, access_db, db)
          IN  /\ http_request' = [set_id |-> set_id, user_email |-> user_email]
              /\ http_response' =
                    IF flashcard_set = None
                    THEN [status |-> HTTP_NOT_FOUND, error |-> "Flashcard set not found"]
                    ELSE IF Get(flashcard_set, "error", "") # ""
                      THEN With(flashcard_set, "status", HTTP_FORBIDDEN)
                    ELSE [status |-> HTTP_SUCCESS, flashcard_set |-> flashcard_set]
    /\ pc' = "got"
    /\ UNCHANGED <<text, sentences, paragraphs, gemini_api_key, num_cards,
                   response, all_questions, final_questions, calls, raised>>
    /\ UNCHANGED gate_vars
    /\ UNCHANGED <<other, app_vars>>

\* FlashcardStorage.delete_set: [deleted, flashcard_storage, flashcard_sets],
\* db the outcome of its select
delete_set(set_id, user_email, db) ==
    LET popped == [deleted |-> Get(flashcard_storage, set_id, None),
                   flashcard_storage |-> Without(flashcard_storage, set_id),
                   flashcard_sets |-> flashcard_sets]
        kept(deleted) == [deleted |-> deleted,
                          flashcard_storage |-> flashcard_storage,
                          flashcard_sets |-> flashcard_sets]
    IN  IF ~use_supabase \/ db = "fails" THEN popped
        ELSE IF db = "empty" \/ set_id \notin DOMAIN flashcard_sets.rows
          THEN kept(None)
        ELSE IF user_email # NoEmail
                /\ flashcard_sets.rows[set_id].user_email # user_email
          THEN kept([error |-> "Access denied"])
        ELSE [deleted |-> flashcard_sets.rows[set_id],
              flashcard_storage |-> flashcard_storage,
              flashcard_sets |-> [rows |-> Without(flashcard_sets.rows, set_id),
                                  next_id |-> flashcard_sets.next_id]]

\* DELETE /api/flashcards/<set_id>, delete_flashcard_set
DeleteFlashcardSet ==
    /\ \E set_id \in SetIds, user_email \in UserEmails, db \in Db :
          LET done == delete_set(set_id, user_email, db)
          IN  /\ http_request' = [set_id |-> set_id, user_email |-> user_email]
              /\ flashcard_storage' = done.flashcard_storage
              /\ flashcard_sets' = done.flashcard_sets
              /\ http_response' =
                    IF done.deleted = None
                    THEN [status |-> HTTP_NOT_FOUND, error |-> "Flashcard set not found"]
                    ELSE IF Get(done.deleted, "error", "") # ""
                      THEN With(done.deleted, "status", HTTP_FORBIDDEN)
                    ELSE [status |-> HTTP_SUCCESS,
                          message |-> "Flashcard set deleted successfully",
                          deleted_title |-> done.deleted.title]
    /\ pc' = "deleted"
    /\ UNCHANGED <<text, sentences, paragraphs, gemini_api_key, num_cards,
                   response, all_questions, final_questions, calls, raised>>
    /\ UNCHANGED gate_vars
    /\ UNCHANGED <<other, use_supabase, storage_counter, payment_storage,
                   payment_counter, savers>>

\* no generator built and no request received yet
Quiet ==
    /\ text = TEXT_EMPTY
    /\ sentences = <<>>
    /\ paragraphs = <<>>
    /\ gemini_api_key = ""
    /\ num_cards = 0
    /\ pc = "idle"
    /\ response = NoResponse
    /\ all_questions = <<>>
    /\ final_questions = <<>>
    /\ calls = <<>>
    /\ raised = FALSE
    /\ gate_in = GateIdle
    /\ gate_out = NoOutput
    /\ http_request = NoRequest
    /\ http_response = NoReply
    /\ other = NoOther

\* the application started without the database, nothing stored
StoreInit == Quiet /\ AppIdle

\* the application started on the database, nothing stored
AccessInit == Quiet /\ use_supabase = TRUE /\ AppLoaded

StoreNext == SaveFlashcards \/ GetFlashcardSet \/ DeleteFlashcardSet

SpecStore == StoreInit /\ [][StoreNext]_vars

SpecAccess == AccessInit /\ [][StoreNext]_vars

\* C26: without the database, over any series of saves and deletes, no two
\* saved sets were given the same id, every stored set's id is its key in
\* flashcard_storage, and every key is below storage_counter
C26_IdsAreNeverReused ==
    ~use_supabase =>
       /\ \A i, j \in 1..Len(calls) : i # j => calls[i].id # calls[j].id
       /\ \A k \in DOMAIN flashcard_storage :
             flashcard_storage[k].id = k /\ k < storage_counter

\* a set was saved after the first one was deleted, and got the next id
C26_Witness ==
    /\ ~use_supabase
    /\ Len(calls) = 2
    /\ DOMAIN flashcard_storage = {2}
    /\ calls[1].id = 1
    /\ storage_counter = 3

\* the tier of the requester of the save request last received
SaverTier == check_user_tier(Get(http_request.fields, "user_email", NoEmail))

\* C28: POST /api/flashcards stores a premium set only for a requester whose
\* tier is premium, and a rejected save leaves flashcard_storage and
\* storage_counter as they were
C28_PremiumSavesNeedPremiumTier ==
    [][/\ (pc' = "saved" /\ http_response'.tier_required = "premium")
            => SaverTier' = "premium"
       /\ pc' = "rejected" => UNCHANGED <<flashcard_storage, storage_counter>>]_vars

\* a premium set was stored for a request that carried no user_email
C28_PremiumSavedWithoutEmail ==
    /\ pc = "saved"
    /\ http_response.status = HTTP_SUCCESS
    /\ http_response.tier_required = "premium"
    /\ "user_email" \notin DOMAIN http_request.fields
    /\ \E k \in DOMAIN flashcard_sets.rows :
          /\ flashcard_sets.rows[k].tier_required = "premium"
          /\ flashcard_sets.rows[k].user_email = NoEmail

\* C27: on the database, get_set gives the contents of a premium set only to
\* a requester whose tier is premium
C27_PremiumSetsOnlyToPremiumTier ==
    (/\ use_supabase
     /\ pc = "got"
     /\ http_response.status = HTTP_SUCCESS
     /\ http_response.flashcard_set.tier_required = "premium")
        => check_user_tier(http_request.user_email) = "premium"

\* a request without user_email was given a premium set of the table
C27_PremiumSetWithoutEmail ==
    /\ use_supabase
    /\ pc = "got"
    /\ http_request.user_email = NoEmail
    /\ http_response.status = HTTP_SUCCESS
    /\ http_request.set_id \in DOMAIN flashcard_sets.rows
    /\ http_response.flashcard_set = flashcard_sets.rows[http_request.set_id]
    /\ http_response.flashcard_set.tier_required = "premium"
    /\ check_user_tier(http_response.flashcard_set.user_email) = "premium"

(***************************************************************************)
(* two requests inside _save_to_memory at once: the server runs each       *)
(* request on its own thread, and the three statements of lines 327-329    *)
(* of the two calls interleave                                             *)
(***************************************************************************)

Threads == {"first", "second"}

\* what the two calls were given: the set built at lines 299-308
SavedTitles == {"Atoms", "Cells", "Markets"}

NewSets ==
    {[title |-> t, flashcards |-> <<CARD_ATOM>>, original_text |-> "",
      card_statuses |-> <<>>, total_cards |-> 1, tier_required |-> "free",
      user_email |-> e] : t \in SavedTitles, e \in UserEmails}

\* both calls about to run line 327, each with its own set
RaceInit ==
    /\ Quiet
    /\ use_supabase = FALSE
    /\ flashcard_sets = EmptyTable
    /\ flashcard_storage = EmptyDict
    /\ storage_counter = 1
    /\ payment_storage = EmptyDict
    /\ payment_counter = 1
    /\ savers \in {s \in [Threads -> [line : {327}, flashcard_set : NewSets]] :
                     s["first"].flashcard_set.title # s["second"].flashcard_set.title}

\* the thread moves on to the next line, its set as given
Moved(thread, line, flashcard_set) ==
    [savers EXCEPT ![thread] = [line |-> line, flashcard_set |-> flashcard_set]]

\* what _save_to_memory never touches
RaceFrame ==
    /\ UNCHANGED pipeline_vars
    /\ UNCHANGED gate_vars
    /\ UNCHANGED http_vars
    /\ UNCHANGED <<other, use_supabase, flashcard_sets, payment_storage,
                   payment_counter>>

\* line 327: flashcard_set["id"] = storage_counter
SetId(thread) ==
    /\ savers[thread].line = 327
    /\ savers' = Moved(thread, 328,
                       With(savers[thread].flashcard_set, "id", storage_counter))
    /\ UNCHANGED <<flashcard_storage, storage_counter>>
    /\ RaceFrame

\* line 328: flashcard_storage[storage_counter] = flashcard_set
Store(thread) ==
    /\ savers[thread].line = 328
    /\ flashcard_storage' = With(flashcard_storage, storage_counter,
                                 savers[thread].flashcard_set)
    /\ savers' = Moved(thread, 329, savers[thread].flashcard_set)
    /\ UNCHANGED storage_counter
    /\ RaceFrame

\* line 329: storage_counter += 1, and the return of line 330
Count(thread) ==
    /\ savers[thread].line = 329
    /\ storage_counter' = storage_counter + 1
    /\ savers' = Moved(thread, 330, savers[thread].flashcard_set)
    /\ UNCHANGED flashcard_storage
    /\ RaceFrame

RaceNext == \E thread \in Threads : SetId(thread) \/ Store(thread) \/ Count(thread)

SpecRace == RaceInit /\ [][RaceNext]_vars

\* both calls have returned
BothSaved == \A thread \in Threads : savers[thread].line = 330

\* C25: two saves whose statements interleave receive distinct ids, and each
\* set is afterwards in flashcard_storage under its id
C25_ConcurrentSavesKeepBoth ==
    BothSaved =>
       /\ savers["first"].flashcard_set.id # savers["second"].flashcard_set.id
       /\ \A thread \in Threads :
             /\ savers[thread].flashcard_set.id \in DOMAIN flashcard_storage
             /\ flashcard_storage[savers[thread].flashcard_set.id]
                   = savers[thread].flashcard_set

\* both calls returned the id 1 and one set is all that is stored
C25_SameIdAndOneSetLost ==
    /\ BothSaved
    /\ savers["first"].flashcard_set.id = 1
    /\ savers["second"].flashcard_set.id = 1
    /\ DOMAIN flashcard_storage = {1}
    /\ storage_counter = 3

(***************************************************************************)
(* app.py: payment intents without the database, and the provider's        *)
(* webhook                                                                 *)
(***************************************************************************)

\* the payment intents one behaviour creates
MaxPayments == 1

\* the clock when an intent is created. The code reads it in milliseconds;
\* the reading is kept here to the second, and like every real reading it is
\* far above any value payment_counter takes
CLOCK_NOW == 1762165000

\* random.randint(0, 999)
RANDOM_MAX == 999

Timestamps == {CLOCK_NOW, CLOCK_NOW + RANDOM_MAX}

\* secrets.token_urlsafe(8): eleven characters of letters, digits, - and _
TOKEN == "q_7Zk-Xw2Lm"

REFERENCE_PREFIX == "studypal_"

INTASEND_BASE_URL == "https://sandbox.intasend.com"

\* str(n) and int(s); int raises ValueError on anything but digits
IsDigits(s) == s # "" /\ \A i \in 1..Len(s) : Ch(s, i) \in CharsOf(DIGITS)

DigitValue(c) == (CHOOSE i \in 1..10 : Ch(DIGITS, i) = c) - 1

RECURSIVE int(_)
int(s) == IF Len(s) = 1 THEN DigitValue(s)
          ELSE 10 * int(SubSeq(s, 1, Len(s) - 1)) + DigitValue(Ch(s, Len(s)))

\* str.upper()
upper_ch(c) ==
    IF c \in LowerChars THEN Ch(UPPER, CHOOSE i \in 1..26 : Ch(LOWER, i) = c) ELSE c

upper(s) == Cat([i \in 1..Len(s) |-> upper_ch(Ch(s, i))], 1, Len(s))

\* line 165: the reference of a new intent
Reference(timestamp) == REFERENCE_PREFIX \o ToString(timestamp) \o "_" \o TOKEN

\* PaymentStorage.create_payment_intent without the database: the intent
\* returned; created_at and expires_at, readings of the clock, are left out
create_payment_intent(amount, currency, description, user_email, plan_type, timestamp) ==
    [id |-> payment_counter,
     amount |-> amount,
     currency |-> currency,
     description |-> description,
     user_email |-> user_email,
     plan_type |-> plan_type,
     status |-> "pending",
     reference |-> Reference(timestamp)]

\* the bodies of POST /api/payments/create-intent
IntentRequests ==
    {[json |-> "null"],
     [json |-> "object", fields |-> [amount |-> 0, user_email |-> "student@example.com"]],
     [json |-> "object", fields |-> [amount |-> 500]],
     [json |-> "object", fields |-> [amount |-> 500, user_email |-> "student@example.com"]]}

\* the reply of create_payment_intent when it creates nothing
IntentRejection(req) ==
    IF NoData(req) THEN "No data provided"
    ELSE IF Get(req.fields, "amount", 0) <= 0 THEN "Valid amount is required"
    ELSE IF Get(req.fields, "user_email", NoEmail) = NoEmail THEN "User email is required"
    ELSE ""

\* POST /api/payments/create-intent; collection is what
\* create_intasend_collection came back with
CreatePaymentIntent ==
    /\ payment_counter <= MaxPayments
    /\ ~use_supabase
    /\ \E req \in IntentRequests, timestamp \in Timestamps,
          collection \in {"none", "created"} :
          /\ http_request' = req
          /\ IF IntentRejection(req) # ""
             THEN /\ http_response' = [status |-> HTTP_BAD_REQUEST,
                                       error |-> IntentRejection(req)]
                  /\ pc' = "rejected"
                  /\ UNCHANGED <<payment_storage, payment_counter>>
             ELSE LET payment_intent ==
                         create_payment_intent(
                            req.fields.amount, Get(req.fields, "currency", "KES"),
                            Get(req.fields, "description", "StudyPal Premium"),
                            req.fields.user_email,
                            Get(req.fields, "plan_type", "monthly"), timestamp)
                  IN  /\ payment_storage' = With(payment_storage, payment_counter,
                                                 payment_intent)
                      /\ payment_counter' = payment_counter + 1
                      /\ http_response' =
                            [status |-> HTTP_SUCCESS,
                             payment_intent |-> payment_intent,
                             checkout_url |->
                                IF collection = "created"
                                THEN INTASEND_BASE_URL \o "/checkout/collection/"
                                ELSE INTASEND_BASE_URL \o "/checkout/"
                                        \o payment_intent.reference \o "/"]
                      /\ pc' = "intent"
    /\ UNCHANGED <<text, sentences, paragraphs, gemini_api_key, num_cards,
                   response, all_questions, final_questions, calls, raised>>
    /\ UNCHANGED gate_vars
    /\ UNCHANGED <<other, use_supabase, flashcard_sets, flashcard_storage,
                   storage_counter, savers>>

\* lines 688-697
status_mapping ==
    ("COMPLETE" :> "completed") @@ ("COMPLETED" :> "completed")
    @@ ("SUCCESS" :> "completed") @@ ("PROCESSING" :> "processing")
    @@ ("PENDING" :> "pending") @@ ("FAILED" :> "failed")
    @@ ("CANCELLED" :> "cancelled") @@ ("CANCELED" :> "cancelled")

\* a plausible slip: a state the mapping does not know kept as it came
WebhookStatusAsSent(state) == Get(status_mapping, upper(state), lower(state))

\* line 699; state is "" when the body has none
WebhookStatus(state) == Get(status_mapping, upper(state), "unknown")

\* PaymentStorage.update_payment_status without the database: payment_storage
\* afterwards; updated_at, a reading of the clock, is left out
update_payment_status(payment_id, status, intasend_ref) ==
    LET update_data == IF intasend_ref # ""
                       THEN [status |-> status, intasend_reference |-> intasend_ref]
                       ELSE [status |-> status]
    IN  IF int(payment_id) \in DOMAIN payment_storage
        THEN [payment_storage EXCEPT ![int(payment_id)] = update_data @@ @]
        ELSE payment_storage

\* `a or b or c` over the fields of a body, "" for None
FirstOf(fields, names) ==
    LET given == {i \in 1..Len(names) : Get(fields, names[i], "") # ""}
    IN  IF given = {} THEN "" ELSE fields[names[MinOf(given)]]

\* the states and references a webhook may carry: the references intents are
\* given, references made up by the sender, and none
WebhookStates ==
    {"", "COMPLETE", "COMPLETED", "success", "PROCESSING", "PENDING", "FAILED",
     "CANCELED", "REFUNDED"}

WebhookReferences ==
    {Reference(timestamp) : timestamp \in Timestamps}
    \cup {"", "studypal_1_made-up", "studypal_2_made-up", "studypal_uuid_1a2b3c4d_Zk8Q",
          "studypal", "invoice_1_x"}

WebhookBodies ==
    {[json |-> "null"], [json |-> "object", fields |-> EmptyObject]}
    \cup {[json |-> "object",
           fields |-> [state |-> s, api_ref |-> r, invoice_id |-> "INV-1"]] :
            s \in WebhookStates, r \in WebhookReferences}
    \cup {[json |-> "object", fields |-> [status |-> "COMPLETE", account |-> r]] :
            r \in WebhookReferences}

\* lines 679-699 on one body: what the handler reads from it
Read(req) ==
    LET reference == FirstOf(req.fields, <<"account", "api_ref", "reference">>)
    IN  [invoice_id |-> FirstOf(req.fields, <<"invoice_id", "id">>),
         state |-> FirstOf(req.fields, <<"state", "status">>),
         reference |-> reference,
         reference_parts |-> split_on(reference, "_"),
         status |-> WebhookStatus(FirstOf(req.fields, <<"state", "status">>))]

\* the same for every body, worked out once
ReadTable == [req \in {b \in WebhookBodies : ~NoData(b)} |-> Read(req)]

RECEIVED == [status |-> HTTP_SUCCESS,
             body |-> [status |-> "received",
                       message |-> "Webhook processed successfully"]]

\* POST /api/payments/webhook, intasend_webhook
IntasendWebhook ==
    /\ ~use_supabase
    /\ \E req \in WebhookBodies :
          /\ http_request' = req
          /\ IF NoData(req)
             THEN /\ http_response' = [status |-> HTTP_BAD_REQUEST,
                                       error |-> "No data provided"]
                  /\ UNCHANGED payment_storage
             ELSE LET read == ReadTable[req]
                  IN  IF /\ read.reference # ""
                         /\ startswith(read.reference, REFERENCE_PREFIX)
                         /\ Len(read.reference_parts) >= 2
                         /\ read.status # "unknown"
                      THEN IF IsDigits(read.reference_parts[2])
                           THEN /\ payment_storage' =
                                      update_payment_status(read.reference_parts[2],
                                                            read.status, read.invoice_id)
                                /\ http_response' = RECEIVED
                           ELSE /\ http_response' =
                                      [status |-> 500,
                                       error |-> "Webhook processing failed"]
                                /\ UNCHANGED payment_storage
                      ELSE /\ http_response' = RECEIVED
                           /\ UNCHANGED payment_storage
    /\ pc' = "webhook"
    /\ UNCHANGED <<text, sentences, paragraphs, gemini_api_key, num_cards,
                   response, all_questions, final_questions, calls, raised>>
    /\ UNCHANGED gate_vars
    /\ UNCHANGED <<other, use_supabase, flashcard_sets, flashcard_storage,
                   storage_counter, payment_counter, savers>>

PayNext == CreatePaymentIntent \/ IntasendWebhook

SpecPay == StoreInit /\ [][PayNext]_vars

\* the last request was a webhook naming payment k's reference with a state
\* the mapping takes to `completed`
ReportedComplete(k) ==
    /\ pc = "webhook"
    /\ ~NoData(http_request)
    /\ k \in DOMAIN payment_storage
    /\ ReadTable[http_request].reference = payment_storage[k].reference
    /\ upper(ReadTable[http_request].state) \in {"COMPLETE", "COMPLETED", "SUCCESS"}

\* C24: without the database, a webhook carrying the reference of payment P
\* and the state COMPLETE, COMPLETED or SUCCESS leaves P's stored status
\* `completed`, and is answered with the `received` reply
C24_CompletionReachesThePayment ==
    \A k \in DOMAIN payment_storage :
       ReportedComplete(k) => /\ payment_storage[k].status = "completed"
                              /\ http_response = RECEIVED

\* the webhook named payment 1's reference, was answered `received`, and the
\* payment is still pending
C24_StillPendingAfterCompletion ==
    /\ ReportedComplete(1)
    /\ http_response = RECEIVED
    /\ payment_storage[1].status = "pending"
    /\ payment_storage[1].reference = Reference(CLOCK_NOW)

PAYMENT_STATUSES == {"pending", "processing", "completed", "failed", "cancelled"}

\* a webhook the handler has nothing to do for: no body, no state or one the
\* mapping does not know, or a reference without the prefix
Ignored(req) ==
    \/ NoData(req)
    \/ upper(ReadTable[req].state) \notin DOMAIN status_mapping
    \/ ~startswith(ReadTable[req].reference, REFERENCE_PREFIX)

\* C29: every stored payment intent's status is one of pending, processing,
\* completed, failed and cancelled, it is pending when the intent is created,
\* and a webhook with no state, an unmapped state or a reference that does not
\* start with studypal_ leaves every stored intent as it was
C29_StatusesComeFromTheMapping ==
    [][/\ \A k \in DOMAIN payment_storage' :
             payment_storage'[k].status \in PAYMENT_STATUSES
       /\ \A k \in DOMAIN payment_storage' \ DOMAIN payment_storage :
             payment_storage'[k].status = "pending"
       /\ (pc' = "webhook" /\ Ignored(http_request'))
             => UNCHANGED payment_storage]_vars

\* a payment a webhook had marked failed was named by a webhook with a state
\* the mapping does not know, and is still failed
C29_Witness ==
    /\ pc = "webhook"
    /\ http_request = [json |-> "object",
                       fields |-> [state |-> "REFUNDED",
                                   api_ref |-> "studypal_1_made-up",
                                   invoice_id |-> "INV-1"]]
    /\ http_response = RECEIVED
    /\ 1 \in DOMAIN payment_storage
    /\ payment_storage[1].status = "failed"

\* a webhook with a mapped state and a reference without the prefix, after a
\* payment was marked completed
C29_WitnessNoPrefix ==
    /\ pc = "webhook"
    /\ http_request = [json |-> "object",
                       fields |-> [state |-> "FAILED", api_ref |-> "invoice_1_x",
                                   invoice_id |-> "INV-1"]]
    /\ 1 \in DOMAIN payment_storage
    /\ payment_storage[1].status = "completed"
    /\ "intasend_reference" \in DOMAIN payment_storage[1]

====
